---- MODULE Spec2Model ----
(***************************************************************************)
(* A model of the way-cooler compositor's privileged protocols: the        *)
(* cursor override (mousegrabber) with the cursor image state it drives,   *)
(* and the keybinding filter with the keyboard key handler that queries    *)
(* it.                                                                     *)
(*                                                                         *)
(* The compositor is single threaded: every handler runs to completion,    *)
(* so every handler is one action.  A handler that answers a request or    *)
(* a key event leaves what it did in mg_request or key_event; the step     *)
(* wl_display_run then finishes the dispatch (a client that was posted a   *)
(* protocol error is dropped, a requested termination takes effect) and    *)
(* the next handler runs.                                                  *)
(*                                                                         *)
(* Three specifications are given over the same variables:                 *)
(*   SpecGrab    mousegrabber, cursor image, cursor mode, pointer focus    *)
(*   SpecKeys    keybindings global, registered keys, keyboard key handler *)
(*   SpecFilter  keybindings requests, with their history kept             *)
(***************************************************************************)
EXTENDS Integers, FiniteSets, Sequences, TLC

\* ------------------------------------------------------------------------
\* Bounds

\* number of wayland clients that can be connected
NumClients == 2

\* how many times one client binds the same global
MaxBinds == 1

\* number of outputs in the output list
NumOutputs == 1

\* largest layout coordinate the cursor reaches
MaxCoord == 2

\* largest width and height a client gives its surface
MaxSize == 3

\* largest configure serial the display hands out
MaxSerial == 2

\* number of clients that create a surface
NumViewClients == 1

\* the layer surfaces that exist at a time
MaxLayerSurfaces == 2

\* ------------------------------------------------------------------------
\* Values

Clients == 1..NumClients

\* a NULL struct wl_client pointer
NULL_CLIENT == 0

\* a wl_resource is identified by the client that created it and the
\* index of the bind that created it
Resources == Clients \X (1..MaxBinds)

\* a NULL struct wl_resource pointer
NULL_RES == <<0, 0>>

\* wl_resource_get_client
ResourceClient(resource) == resource[1]

\* a client can bind the global once more
CanBind(live, client) == \E i \in 1..MaxBinds : <<client, i>> \notin live

\* wl_resource_create: the resource a bind of the client creates, numbered
\* with the lowest index the client has free
NewResource(live, client) ==
    <<client, CHOOSE i \in 1..MaxBinds :
                  /\ <<client, i>> \notin live
                  /\ \A j \in 1..(i - 1) : <<client, j>> \in live>>

Outputs == 1..NumOutputs

\* a NULL struct wc_output pointer
NULL_OUTPUT == 0

\* server->outputs once the backend has announced every output: each was
\* inserted at the head of the list
AllOutputs == [i \in 1..NumOutputs |-> NumOutputs + 1 - i]

\* a NULL char pointer
NULL_NAME == "NULL"

\* cursor names a grabber asks for
CursorNames == {"watch", "cross"}

\* what the wlr_cursor shows: nothing, a named xcursor image or the
\* surface a client provided
NoImage == [kind |-> "none", name |-> NULL_NAME, client |-> NULL_CLIENT]

XcursorImage(name) == [kind |-> "xcursor", name |-> name, client |-> NULL_CLIENT]

SurfaceImage(client) == [kind |-> "surface", name |-> NULL_NAME, client |-> client]

\* a NULL wlr_seat_pointer_request_set_cursor_event pointer
NULL_EVENT == NULL_CLIENT

NoRequest == [op |-> "none", resource |-> NULL_RES, error |-> "none"]

\* modifier names of the keymap; a modifier mask is the set of the
\* modifiers whose bit is set
Modifiers == {"Shift", "Lock", "Control", "Mod1", "Mod2"}

\* keycodes the keyboard reports (evdev): Escape, Q, F1
EventKeycodes == {1, 16, 59}

\* keycodes as xkb and the keybindings protocol number them
XkbKeycodes == {k + 8 : k \in EventKeycodes}

\* chords a controller registers
RegisterKeycodes == {9, 24}

RegisterMasks == {{}, {"Control", "Mod1"}, {"Control", "Shift"}, {"Lock"},
                  {"Control", "Mod1", "Lock"}}

\* modifier states a key event arrives with: the depressed, latched and
\* locked masks of struct wlr_keyboard_modifiers
Mods(depressed, latched, locked) ==
    [depressed |-> depressed, latched |-> latched, locked |-> locked]

ModifierStates ==
    {Mods({}, {}, {}),
     Mods({}, {}, {"Lock"}),
     Mods({"Control"}, {}, {}),
     Mods({"Control"}, {"Shift"}, {}),
     Mods({"Control", "Shift"}, {}, {}),
     Mods({"Control", "Shift"}, {}, {"Lock"}),
     Mods({"Control", "Mod1"}, {}, {}),
     Mods({"Control", "Mod1"}, {}, {"Lock"}),
     Mods({"Control", "Mod1"}, {}, {"Mod2"})}

\* layout coordinates of the cursor
Coords == 0..MaxCoord

\* pointer buttons (event->button)
Buttons == {"BTN_LEFT", "BTN_RIGHT"}

\* no zway_cooler_mousegrabber event
NoGrabberEvent == [resource |-> NULL_RES, event |-> "none", x |-> 0, y |-> 0,
                   button |-> "none", released |-> FALSE]

\* no pointer event being handled; seat_button tells that
\* wlr_seat_pointer_notify_button was called, seat_enter and seat_motion name
\* the client sent wl_pointer.enter and wl_pointer.motion, grabber is the
\* event sent over the mousegrabber protocol
NoPointerEvent == [kind |-> "none", x |-> 0, y |-> 0, button |-> "none",
                   released |-> FALSE, seat_button |-> FALSE,
                   seat_enter |-> NULL_CLIENT, seat_motion |-> NULL_CLIENT,
                   grabber |-> NoGrabberEvent]

\* what the pointer handlers did is not recorded
PointerEventOff == [NoPointerEvent EXCEPT !.kind = "off"]

\* the clients that create a surface
ViewClients == 1..NumViewClients

\* the layout coordinates the cursor is moved to while views are followed
CursorPoints == {p \in Coords \X Coords : p[2] \in {0, p[1]}}

\* enum wlr_edges, as the sets of edges a resize request names here
ResizeEdges == {{"TOP", "LEFT"}, {"BOTTOM", "RIGHT"}, {"LEFT"}}

\* struct wlr_box
Box(x, y, width, height) == [x |-> x, y |-> y, width |-> width, height |-> height]

\* a zeroed struct wlr_box
NoBox == Box(0, 0, 0, 0)

\* no struct wc_view
NULL_VIEW == NULL_CLIENT

\* the slot of a client that has no view; surface is the size the client
\* committed last, window the width and height of the wlr_xwayland_surface,
\* configure_serial the serial the client acknowledged last, configures
\* the configure events sent to it and not yet acknowledged and activated
\* the state last given to wlr_xdg_toplevel_set_activated or
\* wlr_xwayland_surface_activate
NoView == [surface_type |-> "none", mapped |-> FALSE, geo |-> NoBox, pending_serial |-> 0, is_pending_serial |-> FALSE, pending_geometry |-> NoBox, configure_serial |-> 0, surface |-> [width |-> 0, height |-> 0], window |-> [width |-> 0, height |-> 0], configures |-> <<>>, activated |-> FALSE]

\* an int passed as the uint16_t of wlr_xwayland_surface_configure
Uint16(n) == n % 65536

\* the view list left out of the state: wc_view_at may find a view of any
\* client and view geometry is not followed
ViewsOff == [c \in Clients |-> [NoView EXCEPT !.surface_type = "off"]]

\* cursor->grabbed after calloc
NoGrabbed == [view |-> NULL_VIEW, original_x |-> 0, original_y |-> 0, original_view_geo |-> NoBox, resize_edges |-> {}]

\* no call of wc_focus_view; log lists what the call did, in order
NoFocusEvent == [view |-> NULL_VIEW, prev |-> NULL_VIEW, log |-> <<>>]

\* calls of wc_focus_view are not recorded
FocusEventOff == [NoFocusEvent EXCEPT !.log = <<"off">>]

\* enum zwlr_layer_shell_v1_layer
Layers == {"BACKGROUND", "BOTTOM", "TOP", "OVERLAY"}

\* the handles of the layer surfaces
LayerSurfaces == 1..MaxLayerSurfaces

\* no struct wlr_layer_surface_v1
NULL_LAYER == 0

\* the effective resolution of the output
OutputWidth == 800
OutputHeight == 600

\* the extent the layer surfaces ask for, and the zone they reserve
BarExtent == 30

\* the margins the layer surfaces ask for, one value for the four sides
MarginSizes == {0, 15, 20}

\* struct wlr_layer_surface_v1_state
LayerState(anchor, desired_width, desired_height, exclusive_zone, margin, keyboard_interactive) == [anchor |-> anchor, desired_width |-> desired_width, desired_height |-> desired_height, exclusive_zone |-> exclusive_zone, margin |-> [top |-> margin, right |-> margin, bottom |-> margin, left |-> margin], keyboard_interactive |-> keyboard_interactive]

\* the state of a wlr_layer_surface_v1 after calloc
NoLayerState == LayerState({}, 0, 0, 0, 0, FALSE)

\* the slot of a layer surface that does not exist; of a struct wc_layer
\* and its wlr_layer_surface_v1: geo is what the arranger computed last,
\* configured the size of the last wlr_layer_surface_v1_configure and
\* closed whether wlr_layer_surface_v1_close was called
NoLayer == [layer |-> "none", current |-> NoLayerState, client_pending |-> NoLayerState, geo |-> NoBox, mapped |-> FALSE, configured |-> <<>>, closed |-> FALSE]

\* no arrangement made; log lists what the arrangement did, in order
NoLayerEvent == [arranged |-> FALSE, log |-> <<>>, focus_layer |-> NULL_LAYER]

\* arrangements are not recorded
LayerEventOff == [NoLayerEvent EXCEPT !.focus_layer = -1]

\* the output in its own coordinates: the layout has the one output, at
\* its origin, untransformed and of scale 1
OutputBox == Box(0, 0, OutputWidth, OutputHeight)

\* the damage of the output is left out of the state
DamageOff == {Box(0 - 1, 0 - 1, 0, 0)}

\* no frame of the output
NoFrame == [called |-> FALSE, attached |-> FALSE, needs_swap |-> FALSE,
            damage |-> {}, log |-> <<>>]

\* no zway_cooler_keybindings key event
NoKeySent == [resource |-> NULL_RES, keycode |-> 0, pressed |-> FALSE,
              modifiers |-> {}]

NoKey == [keycode |-> 0, modifiers |-> {}, depressed |-> {}, pressed |-> FALSE,
          syms |-> {}, seat |-> FALSE, sent |-> NoKeySent, terminate |-> FALSE]

VARIABLES
    \* --- wayland connection state
    client_error,       \* client -> protocol error posted to it, "none" if none
    \* --- mousegrabber.h: struct wc_mousegrabber, server->mouse_grab
    mg_resources,       \* live mousegrabber resources
    mousegrabber,       \* [resource, client]
    mouse_grab,         \* server->mouse_grab
    mg_request,         \* the mousegrabber request handled by the last step
    \* --- cursor.h: struct wc_cursor and the wlr_cursor it drives
    cursor,             \* [cursor_mode, compositor_image, use_client_image, default_image]
    wlr_cursor_image,   \* image currently shown by the wlr_cursor
    software_cursor_locks, \* output -> wlr_output.software_cursor_locks
    pointer_focus,      \* client owning seat->pointer_state.focused_surface
    image_before_grab,  \* history: wlr_cursor_image when the held grab began
    \* --- keybindings.h: struct wc_keybindings, xkb_hash_set
    kb_resources,       \* live keybindings resources
    keybindings,        \* [resource, client]
    registered_keys,    \* keycode -> struct hash_entry
    keyboard_focus,     \* client owning seat->keyboard_state.focused_client
    key_event,          \* the key event handled by the last step, with its outcome
    terminated,         \* wl_display_run has returned
    round_trip,         \* history: register / clear / register bookkeeping
    held_keys,          \* history: keycode -> how the press of the key that is down was handled
    \* --- cursor.h, view.h: pointer input
    pointer_event,      \* the pointer event handled by the last step, with its outcome
    wlr_cursor_xy,      \* <<wlr_cursor->x, wlr_cursor->y>>
    views,              \* client -> the struct wc_view of its surface
    grabbed,            \* cursor->grabbed
    grabbed_freed,      \* the memory cursor->grabbed.view points to was freed
    next_serial,        \* the next value of wl_display_next_serial
    crashed,            \* the process died on an invalid memory access
    \* --- server.h: the view list, and the focus calls made on it
    server_views,       \* server->views, head first, as the clients of the views
    focus_event,        \* the wc_focus_view call of the last step, with its outcome
    \* --- output.h, layer_shell.h: the layer surfaces of the output
    output_layers,      \* layer -> output->layers[layer], head first
    layer_surfaces,     \* layer surface -> its struct wc_layer
    usable_area,        \* output->usable_area
    layer_event,        \* the arrangement made by the last step, with its outcome
    \* --- output.h: the damage of the output and its frames
    output_damage,      \* output->damage: the rectangles of its current region
    frame,              \* the wc_output_frame of the last step, with its outcome
    \* --- server.h: the outputs
    server_outputs,     \* server->outputs, head first
    active_output       \* server->active_output

grab_vars == <<mg_resources, mousegrabber, mouse_grab, mg_request, cursor,
               wlr_cursor_image, software_cursor_locks, pointer_focus,
               image_before_grab>>

key_vars == <<kb_resources, keybindings, registered_keys, keyboard_focus,
              key_event, terminated, round_trip, held_keys>>

view_vars == <<pointer_event, wlr_cursor_xy, views, grabbed, grabbed_freed,
               next_serial, crashed>>

focus_vars == <<server_views, focus_event>>

layer_vars == <<output_layers, layer_surfaces, usable_area, layer_event>>

frame_vars == <<output_damage, frame>>

hotplug_vars == <<server_outputs, active_output>>

output_vars == <<layer_vars, frame_vars, hotplug_vars>>

scene_vars == <<focus_vars, output_vars>>

\* the view list is part of the state
Tracked == views /= ViewsOff

vars == <<client_error, grab_vars, key_vars, view_vars, scene_vars>>

\* the event loop is between two dispatches
Idle ==
    /\ ~terminated
    /\ ~crashed
    /\ mg_request = NoRequest
    /\ key_event = NoKey
    /\ pointer_event \in {NoPointerEvent, PointerEventOff}
    /\ focus_event \in {NoFocusEvent, FocusEventOff}
    /\ layer_event \in {NoLayerEvent, LayerEventOff}
    /\ frame = NoFrame

\* ------------------------------------------------------------------------
\* cursor.c: the cursor image

\* wlr_output_lock_software_cursors applied to every output of
\* server->outputs
LockAll(locks, lock) ==
    LET listed == {server_outputs[i] : i \in DOMAIN server_outputs}
    IN [o \in Outputs |-> IF o \notin listed THEN locks[o]
                          ELSE IF lock THEN locks[o] + 1
                          ELSE locks[o] - 1]

\* wc_cursor_set_compositor_cursor: the new cursor record, lock counters
\* and shown image
wc_cursor_set_compositor_cursor(cur, locks, cursor_name) ==
    LET skip_lock == cursor_name /= NULL_NAME /\ cur.compositor_image /= NULL_NAME
        lock_software_cursors == cursor_name /= NULL_NAME
        new_cur == [cur EXCEPT !.compositor_image = cursor_name]
        image == IF new_cur.compositor_image /= NULL_NAME
                 THEN new_cur.compositor_image
                 ELSE new_cur.default_image
    IN [cursor |-> new_cur,
        locks |-> IF skip_lock THEN locks ELSE LockAll(locks, lock_software_cursors),
        image |-> XcursorImage(image)]

\* wc_cursor_set_client_cursor: event is the client whose surface is
\* offered, or NULL_EVENT
wc_cursor_set_client_cursor(cur, shown, event) ==
    LET use_client_image == event /= NULL_EVENT
        image == IF cur.compositor_image /= NULL_NAME
                 THEN cur.compositor_image
                 ELSE cur.default_image
    IN [cursor |-> [cur EXCEPT !.use_client_image = use_client_image],
        image |-> IF cur.compositor_image = NULL_NAME
                  THEN IF use_client_image
                       THEN SurfaceImage(event)
                       ELSE IF use_client_image /= cur.use_client_image
                            THEN XcursorImage(image)
                            ELSE shown
                  ELSE shown]

\* ------------------------------------------------------------------------
\* mousegrabber.c

\* mousegrabber_bind: the client binds the global and gets a resource
mousegrabber_bind(client) ==
    /\ Idle
    /\ CanBind(mg_resources, client)
    /\ mg_resources' = mg_resources \cup {NewResource(mg_resources, client)}
    /\ UNCHANGED <<client_error, mousegrabber, mouse_grab, mg_request, cursor,
                   wlr_cursor_image, software_cursor_locks, pointer_focus,
                   image_before_grab, key_vars, view_vars, scene_vars>>

\* grab_mouse without its check for a grab that is already held
grab_mouse_unchecked(resource, new_cursor_name) ==
    LET set == wc_cursor_set_compositor_cursor(
                   [cursor EXCEPT !.cursor_mode = "PASSTHROUGH"],
                   software_cursor_locks, new_cursor_name)
    IN /\ Idle
       /\ resource \in mg_resources
       /\ mousegrabber' = [resource |-> resource, client |-> ResourceClient(resource)]
       /\ mouse_grab' = TRUE
       /\ cursor' = set.cursor
       /\ software_cursor_locks' = set.locks
       /\ wlr_cursor_image' = set.image
       /\ image_before_grab' = wlr_cursor_image
       /\ mg_request' = [op |-> "grab_mouse", resource |-> resource, error |-> "none"]
       /\ UNCHANGED <<client_error, mg_resources, pointer_focus, key_vars, view_vars, scene_vars>>

\* grab_mouse
grab_mouse(resource, new_cursor_name) ==
    /\ Idle
    /\ resource \in mg_resources
    /\ IF mousegrabber.resource /= NULL_RES
       THEN /\ client_error' = [client_error EXCEPT
                                   ![ResourceClient(resource)] = "ALREADY_GRABBED"]
            /\ mg_request' = [op |-> "grab_mouse", resource |-> resource,
                              error |-> "ALREADY_GRABBED"]
            /\ UNCHANGED <<mg_resources, mousegrabber, mouse_grab, cursor,
                           wlr_cursor_image, software_cursor_locks,
                           pointer_focus, image_before_grab, key_vars, view_vars, scene_vars>>
       ELSE LET set == wc_cursor_set_compositor_cursor(
                           [cursor EXCEPT !.cursor_mode = "PASSTHROUGH"],
                           software_cursor_locks, new_cursor_name)
            IN /\ mousegrabber' = [resource |-> resource,
                                   client |-> ResourceClient(resource)]
               /\ mouse_grab' = TRUE
               /\ cursor' = set.cursor
               /\ software_cursor_locks' = set.locks
               /\ wlr_cursor_image' = set.image
               /\ image_before_grab' = wlr_cursor_image
               /\ mg_request' = [op |-> "grab_mouse", resource |-> resource,
                                 error |-> "none"]
               /\ UNCHANGED <<client_error, mg_resources, pointer_focus, key_vars, view_vars, scene_vars>>

\* a destroy handler that leaves the holder as it is
mousegrabber_handle_resource_destroy_keeps(mg, resource) == mg

\* mousegrabber_handle_resource_destroy: the holder after the resource is
\* destroyed
mousegrabber_handle_resource_destroy(mg, resource) ==
    IF mg.resource = resource
    THEN [resource |-> NULL_RES, client |-> NULL_CLIENT]
    ELSE mg

\* release_mouse without its check that the caller holds the grab
release_mouse_unchecked(resource) ==
    LET set == wc_cursor_set_compositor_cursor(
                   cursor, software_cursor_locks, NULL_NAME)
    IN /\ Idle
       /\ resource \in mg_resources
       /\ mouse_grab' = FALSE
       /\ cursor' = set.cursor
       /\ software_cursor_locks' = set.locks
       /\ wlr_cursor_image' = set.image
       /\ mg_resources' = mg_resources \ {mousegrabber.resource}
       /\ mousegrabber' = mousegrabber_handle_resource_destroy(
                              mousegrabber, mousegrabber.resource)
       /\ mg_request' = [op |-> "release_mouse", resource |-> resource,
                         error |-> "none"]
       /\ UNCHANGED <<client_error, pointer_focus, image_before_grab,
                      key_vars, view_vars, scene_vars>>

\* release_mouse
release_mouse(resource) ==
    /\ Idle
    /\ resource \in mg_resources
    /\ IF mousegrabber.resource = NULL_RES
          \/ mousegrabber.client /= ResourceClient(resource)
       THEN /\ client_error' = [client_error EXCEPT
                                   ![ResourceClient(resource)] = "NOT_GRABBED"]
            /\ mg_request' = [op |-> "release_mouse", resource |-> resource,
                              error |-> "NOT_GRABBED"]
            /\ UNCHANGED <<mg_resources, mousegrabber, mouse_grab, cursor,
                           wlr_cursor_image, software_cursor_locks,
                           pointer_focus, image_before_grab, key_vars, view_vars, scene_vars>>
       ELSE LET set == wc_cursor_set_compositor_cursor(
                           cursor, software_cursor_locks, NULL_NAME)
            IN /\ mouse_grab' = FALSE
               /\ cursor' = set.cursor
               /\ software_cursor_locks' = set.locks
               /\ wlr_cursor_image' = set.image
               \* wl_resource_destroy(mousegrabber->resource)
               /\ mg_resources' = mg_resources \ {mousegrabber.resource}
               /\ mousegrabber' = mousegrabber_handle_resource_destroy(
                                      mousegrabber, mousegrabber.resource)
               /\ mg_request' = [op |-> "release_mouse", resource |-> resource,
                                 error |-> "none"]
               /\ UNCHANGED <<client_error, pointer_focus, image_before_grab,
                              key_vars, view_vars, scene_vars>>

\* ------------------------------------------------------------------------
\* seat.c, cursor.c, view.c: pointer input

\* wc_mousegrabber_notify_mouse_moved: the event sent to the grabber
wc_mousegrabber_notify_mouse_moved(mg, x, y) ==
    IF mg.resource = NULL_RES
    THEN NoGrabberEvent
    ELSE [resource |-> mg.resource, event |-> "mouse_moved", x |-> x, y |-> y,
          button |-> "none", released |-> FALSE]

\* wc_mousegrabber_notify_mouse_button: the event sent to the grabber
wc_mousegrabber_notify_mouse_button(mg, x, y, button, released) ==
    IF mg.resource = NULL_RES
    THEN NoGrabberEvent
    ELSE [resource |-> mg.resource, event |-> "mouse_button", x |-> x, y |-> y,
          button |-> button, released |-> released]

\* wc_seat_update_surface_focus: at is the client owning the surface, the
\* result names the new pointer focus and the client sent enter or motion
wc_seat_update_surface_focus(focused, at) ==
    IF at = NULL_CLIENT
    THEN [focus |-> NULL_CLIENT, enter |-> NULL_CLIENT, motion |-> NULL_CLIENT]
    ELSE [focus |-> at,
          enter |-> IF focused /= at THEN at ELSE NULL_CLIENT,
          motion |-> IF focused /= at THEN NULL_CLIENT ELSE at]

\* the seat left alone: the pointer focus stays, no client is notified
SeatUntouched(focused) ==
    [focus |-> focused, enter |-> NULL_CLIENT, motion |-> NULL_CLIENT]

\* ------------------------------------------------------------------------
\* output.c: the damage of the output

\* wlr_box_intersection: the box two boxes share, of no positive extent
\* where they share nothing
Intersection(a, b) ==
    LET Largest(m, n) == IF m >= n THEN m ELSE n
        Smallest(m, n) == IF m <= n THEN m ELSE n
        x1 == Largest(a.x, b.x)
        y1 == Largest(a.y, b.y)
        x2 == Smallest(a.x + a.width, b.x + b.width)
        y2 == Smallest(a.y + a.height, b.y + b.height)
    IN Box(x1, y1, x2 - x1, y2 - y1)

\* wlr_box_empty
EmptyBox(box) == box.width <= 0 \/ box.height <= 0

Intersects(a, b) == ~EmptyBox(Intersection(a, b))

\* pixman_region32_not_empty of the part of a region inside a box
RegionIntersects(region, box) == \E rect \in region : Intersects(rect, box)

\* pixman_region32_union: a region is kept as the rectangles that lie in
\* no other of its rectangles
RegionUnion(region, boxes) ==
    LET all == region \cup {b \in boxes : ~EmptyBox(b)}
    IN {b \in all : \A c \in all : Intersection(c, b) = b => c = b}

\* wlr_output_damage_add_box and wlr_output_damage_add: the boxes are cut
\* to the output and added to the current region
Damaged(boxes) ==
    IF output_damage = DamageOff
    THEN output_damage
    ELSE RegionUnion(output_damage, {Intersection(b, OutputBox) : b \in boxes})

\* wc_view_get_outputs finds the output at a corner of the view
wc_view_get_outputs(view) ==
    LET \* wlr_output_layout_output_at finds the output
        OutputAt(x, y) == x \in 0..(OutputWidth - 1) /\ y \in 0..(OutputHeight - 1)
    IN \/ OutputAt(view.geo.x, view.geo.y)
       \/ OutputAt(view.geo.x + view.geo.width, view.geo.y)
       \/ OutputAt(view.geo.x, view.geo.y + view.geo.height)
       \/ OutputAt(view.geo.x + view.geo.width, view.geo.y + view.geo.height)

\* wc_view_damage: the boxes added to the damage of the output for the
\* rectangles of the damage of the surface
wc_view_damage(view, damage) ==
    IF wc_view_get_outputs(view)
    THEN {Box(b.x + view.geo.x, b.y + view.geo.y, b.width, b.height) : b \in damage}
    ELSE {}

\* wc_view_damage_whole: the boxes added to the damage of the output
wc_view_damage_whole(view) == IF wc_view_get_outputs(view) THEN {view.geo} ELSE {}

\* ------------------------------------------------------------------------
\* view.c: view geometry

\* wc_view_update_geometry: the view once the new geometry was sent to the
\* client as a configure; serial is what wlr_xdg_toplevel_set_size returns
wc_view_update_geometry(view, new_geo, serial) ==
    LET sent == IF view.surface_type = "XDG" THEN serial ELSE 1
    IN [view EXCEPT
           !.pending_serial = sent,
           !.is_pending_serial = IF view.surface_type = "XDG" THEN TRUE ELSE @,
           !.pending_geometry = new_geo,
           \* wlr_xwayland_surface_configure stores the size it is given
           !.window = IF view.surface_type = "XWAYLAND"
                      THEN [width |-> Uint16(new_geo.width),
                            height |-> Uint16(new_geo.height)]
                      ELSE @,
           !.configures = Append(@, [serial |-> sent, width |-> new_geo.width,
                                     height |-> new_geo.height])]

\* the x and y wc_view_commit gives a view whose configure is honoured
AlignedGeo(view, geo) ==
    [view.geo EXCEPT
        !.x = IF view.pending_geometry.x /= view.geo.x
              THEN view.pending_geometry.x + view.pending_geometry.width - geo.width
              ELSE @,
        !.y = IF view.pending_geometry.y /= view.geo.y
              THEN view.pending_geometry.y + view.pending_geometry.height - geo.height
              ELSE @]

\* a commit that honours a configure of an xdg view only when the client
\* acknowledged the very serial that is pending
wc_view_commit_latest(view, geo) ==
    IF ~view.mapped
    THEN view
    ELSE LET sized == [view EXCEPT !.geo.width = view.surface.width,
                                   !.geo.height = view.surface.height]
             pending_serial == sized.pending_serial
         IN IF sized.surface_type = "XDG"
            THEN IF pending_serial > 0 /\ pending_serial = sized.configure_serial
                 THEN [sized EXCEPT !.geo = AlignedGeo(sized, geo),
                                    !.pending_serial = 0,
                                    !.is_pending_serial = FALSE]
                 ELSE sized
            ELSE IF pending_serial > 0
                 THEN [sized EXCEPT !.geo = AlignedGeo(sized, geo),
                                    !.pending_serial = 0]
                 ELSE sized

\* a commit that does not look at the mapped flag of the view
wc_view_commit_unmapped(view, geo) ==
    LET sized == [view EXCEPT !.geo.width = view.surface.width,
                              !.geo.height = view.surface.height]
        pending_serial == sized.pending_serial
    IN IF sized.surface_type = "XDG"
       THEN IF pending_serial > 0 /\ pending_serial >= sized.configure_serial
            THEN LET aligned == [sized EXCEPT !.geo = AlignedGeo(sized, geo)]
                 IN IF pending_serial = sized.configure_serial
                    THEN [aligned EXCEPT !.pending_serial = 0,
                                         !.is_pending_serial = FALSE]
                    ELSE aligned
            ELSE sized
       ELSE IF pending_serial > 0
            THEN [sized EXCEPT !.geo = AlignedGeo(sized, geo),
                               !.pending_serial = 0]
            ELSE sized

\* a commit that leaves the pending serial of an X11 view set
wc_view_commit_keeps_pending(view, geo) ==
    IF ~view.mapped
    THEN view
    ELSE LET sized == [view EXCEPT !.geo.width = view.surface.width,
                                   !.geo.height = view.surface.height]
             pending_serial == sized.pending_serial
         IN IF sized.surface_type = "XDG"
            THEN IF pending_serial > 0 /\ pending_serial >= sized.configure_serial
                 THEN LET aligned == [sized EXCEPT !.geo = AlignedGeo(sized, geo)]
                      IN IF pending_serial = sized.configure_serial
                         THEN [aligned EXCEPT !.pending_serial = 0,
                                              !.is_pending_serial = FALSE]
                         ELSE aligned
                 ELSE sized
            ELSE IF pending_serial > 0
                 THEN [sized EXCEPT !.geo = AlignedGeo(sized, geo)]
                 ELSE sized

\* wc_view_commit: the view after its surface was committed; geo is the
\* box the shell handler passes
wc_view_commit(view, geo) ==
    IF ~view.mapped
    THEN view
    ELSE LET sized == [view EXCEPT !.geo.width = view.surface.width,
                                   !.geo.height = view.surface.height]
             pending_serial == sized.pending_serial
         IN IF sized.surface_type = "XDG"
            THEN IF pending_serial > 0 /\ pending_serial >= sized.configure_serial
                 THEN LET aligned == [sized EXCEPT !.geo = AlignedGeo(sized, geo)]
                      IN IF pending_serial = sized.configure_serial
                         THEN [aligned EXCEPT !.pending_serial = 0,
                                              !.is_pending_serial = FALSE]
                         ELSE aligned
                 ELSE sized
            ELSE IF pending_serial > 0
                 THEN [sized EXCEPT !.geo = AlignedGeo(sized, geo),
                                    !.pending_serial = 0]
                 ELSE sized

\* wc_view_commit: the boxes it adds to the damage of the output;
\* surface_damage is what wlr_surface_get_effective_damage gives
wc_view_commit_damage(view, geo, surface_damage) ==
    IF ~view.mapped
    THEN {}
    ELSE LET sized == [view EXCEPT !.geo.width = view.surface.width,
                                   !.geo.height = view.surface.height]
             size_changed == view.geo.width /= view.surface.width
                             \/ view.geo.height /= view.surface.height
             pending_serial == sized.pending_serial
             honoured == IF sized.surface_type = "XDG"
                         THEN pending_serial > 0 /\ pending_serial >= sized.configure_serial
                         ELSE pending_serial > 0
             aligned == [sized EXCEPT !.geo = AlignedGeo(sized, geo)]
         IN wc_view_damage(view, surface_damage)
            \cup (IF size_changed
                  THEN wc_view_damage_whole(view) \cup wc_view_damage_whole(sized)
                  ELSE {})
            \cup (IF honoured
                  THEN wc_view_damage_whole(sized) \cup wc_view_damage_whole(aligned)
                  ELSE {})

\* what wlr_surface_get_effective_damage can give for the surface of a
\* view: nothing, or the whole surface
SurfaceDamages(view) ==
    IF output_damage = DamageOff
    THEN {{}}
    ELSE {{}, {Box(0, 0, view.surface.width, view.surface.height)}}

\* a move that puts the corner of the view under the cursor
MovedGeo_to_cursor(geo, grab, x, y) == [geo EXCEPT !.x = x, !.y = y]

\* wc_process_motion, case WC_CURSOR_MOVE: the geometry of the grabbed view
MovedGeo(geo, grab, x, y) ==
    [geo EXCEPT !.x = x - grab.original_x, !.y = y - grab.original_y]

\* wc_process_motion, case WC_CURSOR_RESIZE: the geometry asked of the
\* grabbed view
ResizedGeo(geo, grab, x, y) ==
    LET dx == x - grab.original_x
        dy == y - grab.original_y
        original == grab.original_view_geo
        edges == grab.resize_edges
        top == original.height - dy
        left == original.width - dx
    IN [x |-> IF "LEFT" \in edges
              THEN IF left < 1 THEN original.x + dx + left ELSE original.x + dx
              ELSE geo.x,
        y |-> IF "TOP" \in edges
              THEN IF top < 1 THEN original.y + dy + top ELSE original.y + dy
              ELSE geo.y,
        width |-> IF "LEFT" \in edges THEN left
                  ELSE IF "RIGHT" \in edges THEN original.width + dx
                  ELSE original.width,
        height |-> IF "TOP" \in edges THEN top
                   ELSE IF "BOTTOM" \in edges THEN original.height + dy
                   ELSE original.height]

\* wc_process_motion, cases WC_CURSOR_MOVE and WC_CURSOR_RESIZE, applied to
\* the struct wc_view cursor->grabbed.view points to
GrabbedViewMoved(view, x, y) ==
    IF cursor.cursor_mode = "MOVE"
    THEN [view EXCEPT !.geo = MovedGeo(view.geo, grabbed, x, y)]
    ELSE wc_view_update_geometry(view, ResizedGeo(view.geo, grabbed, x, y),
                                 next_serial)

\* the motion sends a configure, which advances the serial of the display
TakesSerial(view) == cursor.cursor_mode = "RESIZE"

\* a motion that leaves the grabbed view alone only when none was grabbed yet
InGrab_stale(cur) == grabbed.view /= NULL_VIEW

\* the switch of wc_process_motion takes the case WC_CURSOR_MOVE or
\* WC_CURSOR_RESIZE
InGrab(cur) == cur.cursor_mode /= "PASSTHROUGH"

\* wc_process_motion while a view is grabbed. Once the grabbed view was
\* freed the accesses through cursor->grabbed.view are undefined: the
\* process dies, or the accesses land in unused memory, or in the view
\* allocated where the freed one was. faults: the process dies later in
\* the handler
GrabbedMotion(x, y, faults) ==
    LET slot == grabbed.view
        view == views[slot]
    IN IF ~grabbed_freed
       THEN /\ TakesSerial(view) => next_serial <= MaxSerial
            /\ views' = [views EXCEPT ![slot] = GrabbedViewMoved(view, x, y)]
            /\ next_serial' = IF TakesSerial(view)
                              THEN next_serial + 1
                              ELSE next_serial
            /\ crashed' = faults
       ELSE \/ /\ crashed' = TRUE
               /\ UNCHANGED <<views, next_serial>>
            \/ /\ UNCHANGED <<views, next_serial>>
               /\ crashed' = faults
            \/ /\ view /= NoView
               /\ TakesSerial(view) => next_serial <= MaxSerial
               /\ views' = [views EXCEPT ![slot] = GrabbedViewMoved(view, x, y)]
               /\ next_serial' = IF TakesSerial(view)
                                 THEN next_serial + 1
                                 ELSE next_serial
               /\ crashed' = faults

\* ------------------------------------------------------------------------
\* cursor.c: pointer input

\* wlr_output_layout_output_at for a layout whose outputs were all added
\* by wlr_output_layout_add_auto: they lie side by side from the origin in
\* the order they were added, the last of server->outputs first
wlr_output_layout_output_at(outputs, x, y) ==
    LET nth == Len(outputs) - (x \div OutputWidth)
    IN IF x >= 0 /\ y \in 0..(OutputHeight - 1) /\ nth \in DOMAIN outputs
       THEN outputs[nth]
       ELSE NULL_OUTPUT

\* wc_process_motion, its last part: server->active_output once the output
\* under the cursor was looked up in server->outputs
ActiveOutputMoved(outputs, active, x, y) ==
    LET at == wlr_output_layout_output_at(outputs, x, y)
    IN IF active /= NULL_OUTPUT /\ at /= active /\ at /= NULL_OUTPUT
       THEN at
       ELSE active

\* wc_process_motion, run by wc_cursor_motion and wc_cursor_motion_absolute
\* once the wlr_cursor was moved to (x, y); at is the client owning the
\* surface wc_view_at finds under the cursor, NULL_CLIENT if it finds none
wc_process_motion(at, x, y) ==
    LET seat == IF cursor.cursor_mode = "PASSTHROUGH"
                THEN wc_seat_update_surface_focus(pointer_focus, at)
                ELSE SeatUntouched(pointer_focus)
    IN
    /\ Idle
    /\ wlr_cursor_xy' = <<x, y>>
    /\ IF cursor.cursor_mode = "PASSTHROUGH"
       THEN LET set == IF at = NULL_CLIENT /\ cursor.use_client_image
                       THEN wc_cursor_set_client_cursor(cursor, wlr_cursor_image,
                                                        NULL_EVENT)
                       ELSE [cursor |-> cursor, image |-> wlr_cursor_image]
            IN /\ cursor' = set.cursor
               /\ wlr_cursor_image' = set.image
       ELSE UNCHANGED <<cursor, wlr_cursor_image>>
    \* server->active_output->wlr_output is read with no test for NULL:
    \* with no active output the read is undefined, the process dies or
    \* goes on with whatever it read
    /\ \E faults \in (IF active_output = NULL_OUTPUT THEN BOOLEAN ELSE {FALSE}) :
           IF Tracked /\ InGrab(cursor)
           THEN GrabbedMotion(x, y, faults)
           ELSE /\ UNCHANGED <<views, next_serial>>
                /\ crashed' = faults
    /\ active_output' = ActiveOutputMoved(server_outputs, active_output, x, y)
    \* the view is damaged where it was and where it is moved to
    /\ output_damage' =
           IF Tracked /\ cursor.cursor_mode = "MOVE" /\ ~grabbed_freed
           THEN Damaged(wc_view_damage_whole(views[grabbed.view])
                        \cup wc_view_damage_whole(views'[grabbed.view]))
           ELSE output_damage
    /\ pointer_focus' = seat.focus
    /\ pointer_event' =
           IF pointer_event = PointerEventOff
           THEN pointer_event
           ELSE [NoPointerEvent EXCEPT
                    !.kind = "motion", !.x = x, !.y = y,
                    !.seat_enter = seat.enter,
                    !.seat_motion = seat.motion,
                    !.grabber = wc_mousegrabber_notify_mouse_moved(
                                    mousegrabber, x, y)]
    /\ UNCHANGED <<client_error, mg_resources, mousegrabber, mouse_grab,
                   mg_request, software_cursor_locks, image_before_grab,
                   key_vars, grabbed, grabbed_freed, focus_vars, layer_vars,
                   frame, server_outputs>>

\* wl_list_remove of the link of a view
ListRemove(list, view) == SelectSeq(list, LAMBDA c : c /= view)

\* a wc_focus_view that does not return early for the view that holds the
\* keyboard focus
wc_focus_view_again(all, list, focused, view) ==
    LET previous == focused /= NULL_CLIENT /\ all[focused].surface_type = "XDG"
        deactivated == IF previous
                       THEN [all EXCEPT ![focused].activated = FALSE]
                       ELSE all
    IN [views |-> [deactivated EXCEPT ![view].activated = TRUE],
        server_views |-> <<view>> \o ListRemove(list, view),
        keyboard_focus |-> view,
        log |-> (IF previous
                 THEN <<[op |-> "deactivate", view |-> focused]>>
                 ELSE <<>>)
                \o <<[op |-> "raise", view |-> view],
                     [op |-> "damage_whole", view |-> view],
                     [op |-> "activate", view |-> view],
                     [op |-> "keyboard_enter", view |-> view]>>]

\* wc_focus_view: the views, the view list and the keyboard focus after the
\* call, and what the call did, in order; all, list and focused are the
\* views, server->views and the owner of seat->keyboard_state.focused_surface
\* before it. The seat has a keyboard
wc_focus_view(all, list, focused, view) ==
    IF focused = view
    THEN [views |-> all, server_views |-> list, keyboard_focus |-> focused,
          log |-> <<>>]
    ELSE LET \* prev_surface && wlr_surface_is_xdg_surface(prev_surface)
             previous == focused /= NULL_CLIENT /\ all[focused].surface_type = "XDG"
             deactivated == IF previous
                            THEN [all EXCEPT ![focused].activated = FALSE]
                            ELSE all
         IN [views |-> [deactivated EXCEPT ![view].activated = TRUE],
             server_views |-> <<view>> \o ListRemove(list, view),
             keyboard_focus |-> view,
             log |-> (IF previous
                      THEN <<[op |-> "deactivate", view |-> focused]>>
                      ELSE <<>>)
                     \o <<[op |-> "raise", view |-> view],
                          [op |-> "damage_whole", view |-> view],
                          [op |-> "activate", view |-> view],
                          [op |-> "keyboard_enter", view |-> view]>>]

\* wc_focus_view on the state: where the views are not followed only the
\* keyboard focus is
Focused(all, view) ==
    IF Tracked
    THEN wc_focus_view(all, server_views, keyboard_focus, view)
    ELSE [views |-> all, server_views |-> server_views, keyboard_focus |-> view,
          log |-> <<>>]

\* wc_focus_view: the boxes it adds to the damage of the output
FocusDamage(view, focus) ==
    IF \E i \in 1..Len(focus.log) : focus.log[i].op = "damage_whole"
    THEN wc_view_damage_whole(focus.views[view])
    ELSE {}

\* the record of a call of wc_focus_view
FocusEvent(view, focus) ==
    IF focus_event = FocusEventOff
    THEN focus_event
    ELSE [view |-> view, prev |-> keyboard_focus, log |-> focus.log]

\* wc_cursor_button; at is the client owning the view under the cursor
wc_cursor_button(button, released, at) ==
    /\ Idle
    /\ IF mouse_grab
       THEN UNCHANGED <<cursor, keyboard_focus, views, focus_vars, output_damage>>
       ELSE IF released
            THEN /\ cursor' = [cursor EXCEPT !.cursor_mode = "PASSTHROUGH"]
                 /\ UNCHANGED <<keyboard_focus, views, focus_vars, output_damage>>
            ELSE IF at /= NULL_CLIENT
                 THEN LET focus == Focused(views, at)
                      IN /\ views' = focus.views
                         /\ server_views' = focus.server_views
                         /\ keyboard_focus' = focus.keyboard_focus
                         /\ focus_event' = FocusEvent(at, focus)
                         /\ output_damage' = Damaged(FocusDamage(at, focus))
                         /\ UNCHANGED cursor
                 ELSE UNCHANGED <<cursor, keyboard_focus, views, focus_vars,
                                  output_damage>>
    /\ pointer_event' =
           IF pointer_event = PointerEventOff
           THEN pointer_event
           ELSE [NoPointerEvent EXCEPT
                    !.kind = "button", !.x = wlr_cursor_xy[1],
                    !.y = wlr_cursor_xy[2], !.button = button,
                    !.released = released,
                    \* wlr_seat_pointer_notify_button
                    !.seat_button = ~mouse_grab]
    /\ UNCHANGED <<client_error, mg_resources, mousegrabber, mouse_grab,
                   mg_request, wlr_cursor_image, software_cursor_locks,
                   pointer_focus, image_before_grab, kb_resources, keybindings,
                   registered_keys, key_event, terminated, round_trip, held_keys,
                   wlr_cursor_xy, grabbed, grabbed_freed, next_serial,
                   crashed, layer_vars, frame, hotplug_vars>>

\* the box a shell handler passes to wc_view_move, wc_view_resize and
\* wc_view_commit: the position of the view and the size of its
\* wlr_xwayland_surface, or of the geometry of its xdg surface
SurfaceBox(view) ==
    IF view.surface_type = "XWAYLAND"
    THEN Box(view.geo.x, view.geo.y, view.window.width, view.window.height)
    ELSE Box(view.geo.x, view.geo.y, view.surface.width, view.surface.height)

\* wc_view_move: cursor->grabbed once view, with the cursor at xy, was
\* granted a move; geo is the box its shell handler passes
MoveGrab(grab, client, view, geo, xy) ==
    [grab EXCEPT !.view = client,
                 !.original_x = xy[1] - view.geo.x,
                 !.original_y = xy[2] - view.geo.y,
                 !.original_view_geo = Box(view.geo.x, view.geo.y,
                                           geo.width, geo.height)]

\* wc_view_move: the view of the client asks for an interactive move
wc_view_move(client) ==
    /\ Idle
    /\ Tracked => views[client] /= NoView
    /\ IF client /= pointer_focus
       THEN UNCHANGED <<cursor, grabbed, grabbed_freed>>
       ELSE /\ cursor' = [cursor EXCEPT !.cursor_mode = "MOVE"]
            /\ IF Tracked
               THEN LET view == views[client]
                        geo == SurfaceBox(view)
                    IN /\ grabbed' = MoveGrab(grabbed, client, view, geo,
                                                wlr_cursor_xy)
                       /\ grabbed_freed' = FALSE
               ELSE UNCHANGED <<grabbed, grabbed_freed>>
    /\ UNCHANGED <<client_error, mg_resources, mousegrabber, mouse_grab,
                   mg_request, wlr_cursor_image, software_cursor_locks,
                   pointer_focus, image_before_grab, key_vars, pointer_event,
                   wlr_cursor_xy, views, next_serial, crashed, scene_vars>>

\* wc_view_resize: the view of the client asks for an interactive resize
\* by the given edges
wc_view_resize(client, edges) ==
    /\ Idle
    /\ Tracked => views[client] /= NoView
    /\ IF client /= pointer_focus
       THEN UNCHANGED <<cursor, grabbed, grabbed_freed>>
       ELSE /\ cursor' = [cursor EXCEPT !.cursor_mode = "RESIZE"]
            /\ IF Tracked
               THEN LET view == views[client]
                        geo == SurfaceBox(view)
                    IN /\ grabbed' =
                              [view |-> client,
                               original_x |-> wlr_cursor_xy[1],
                               original_y |-> wlr_cursor_xy[2],
                               original_view_geo |->
                                   Box(view.geo.x, view.geo.y,
                                       geo.width, geo.height),
                               resize_edges |-> edges]
                       /\ grabbed_freed' = FALSE
               ELSE UNCHANGED <<grabbed, grabbed_freed>>
    /\ UNCHANGED <<client_error, mg_resources, mousegrabber, mouse_grab,
                   mg_request, wlr_cursor_image, software_cursor_locks,
                   pointer_focus, image_before_grab, key_vars, pointer_event,
                   wlr_cursor_xy, views, next_serial, crashed, scene_vars>>

\* wc_seat_request_cursor: a client offers a cursor surface; it is honoured
\* only for the client that owns the pointer focused surface
wc_seat_request_cursor(client) ==
    /\ Idle
    /\ IF pointer_focus = client
       THEN LET set == wc_cursor_set_client_cursor(cursor, wlr_cursor_image, client)
            IN /\ cursor' = set.cursor
               /\ wlr_cursor_image' = set.image
       ELSE UNCHANGED <<cursor, wlr_cursor_image>>
    /\ UNCHANGED <<client_error, mg_resources, mousegrabber, mouse_grab,
                   mg_request, software_cursor_locks, pointer_focus,
                   image_before_grab, key_vars, view_vars, scene_vars>>

\* ------------------------------------------------------------------------
\* xwayland.c, xdg.c: the shell handlers of a view

\* the list of views without the view of the client, which is freed; the
\* seat drops the focus of the surface that goes with it
ViewFreed(client) ==
    /\ views' = IF Tracked THEN [views EXCEPT ![client] = NoView] ELSE views
    /\ grabbed_freed' = \/ grabbed_freed
                        \/ /\ Tracked
                           /\ grabbed.view = client
                           /\ views[client] /= NoView
    /\ pointer_focus' = IF pointer_focus = client THEN NULL_CLIENT ELSE pointer_focus
    /\ keyboard_focus' = IF keyboard_focus = client THEN NULL_CLIENT ELSE keyboard_focus
    /\ server_views' = ListRemove(server_views, client)

\* a new view of the given shell, as calloc and the handler leave it
NewView(surface_type) == [NoView EXCEPT !.surface_type = surface_type]

\* wc_xwayland_new_surface and wc_xdg_new_surface
wc_new_surface(client, surface_type) ==
    /\ Idle
    /\ Tracked
    /\ views[client] = NoView
    /\ views' = [views EXCEPT ![client] = NewView(surface_type)]
    \* wl_list_insert(&server->views, &view->link)
    /\ server_views' = <<client>> \o server_views
    /\ UNCHANGED <<client_error, grab_vars, key_vars, pointer_event,
                   wlr_cursor_xy, grabbed, grabbed_freed, next_serial, crashed,
                   focus_event, output_vars>>

\* wc_xwayland_surface_map: the surface has the given size
wc_xwayland_surface_map(client, width, height) ==
    /\ Idle
    /\ Tracked
    /\ views[client].surface_type = "XWAYLAND"
    /\ ~views[client].mapped
    /\ LET focus == Focused([views EXCEPT ![client].mapped = TRUE], client)
       IN /\ views' = [focus.views EXCEPT ![client] =
                           [@ EXCEPT !.geo.width = width,
                                     !.geo.height = height,
                                     !.surface = [width |-> width, height |-> height],
                                     !.window = [width |-> width, height |-> height]]]
          /\ server_views' = focus.server_views
          /\ keyboard_focus' = focus.keyboard_focus
          /\ focus_event' = FocusEvent(client, focus)
          /\ output_damage' = Damaged(FocusDamage(client, focus)
                                      \cup wc_view_damage_whole(views'[client]))
    /\ UNCHANGED <<client_error, grab_vars, kb_resources, keybindings,
                   registered_keys, key_event, terminated, round_trip, held_keys,
                   pointer_event, wlr_cursor_xy, grabbed, grabbed_freed,
                   next_serial, crashed, layer_vars, frame, hotplug_vars>>

\* wc_xdg_surface_map: the surface has the given size
wc_xdg_surface_map(client, width, height) ==
    /\ Idle
    /\ Tracked
    /\ views[client].surface_type = "XDG"
    /\ ~views[client].mapped
    /\ LET focus == Focused([views EXCEPT ![client].mapped = TRUE], client)
       IN /\ views' = [focus.views EXCEPT ![client] =
                           [@ EXCEPT !.geo.width = width,
                                     !.geo.height = height,
                                     !.surface = [width |-> width, height |-> height]]]
          /\ server_views' = focus.server_views
          /\ keyboard_focus' = focus.keyboard_focus
          /\ focus_event' = FocusEvent(client, focus)
          /\ output_damage' = Damaged(FocusDamage(client, focus)
                                      \cup wc_view_damage_whole(views'[client]))
    /\ UNCHANGED <<client_error, grab_vars, kb_resources, keybindings,
                   registered_keys, key_event, terminated, round_trip, held_keys,
                   pointer_event, wlr_cursor_xy, grabbed, grabbed_freed,
                   next_serial, crashed, layer_vars, frame, hotplug_vars>>

\* the client acknowledges the n-th configure it was sent and has not yet
\* acknowledged, and gives its surface the size of that configure; a
\* dimension below 1 is not a size, the surface keeps the one it has. With
\* n = 0 it acknowledges nothing
ClientAcks(view, n) ==
    IF n = 0
    THEN view
    ELSE LET configure == view.configures[n]
         IN [view EXCEPT
                !.configure_serial = IF view.surface_type = "XDG"
                                     THEN configure.serial
                                     ELSE @,
                !.surface = [width |-> IF configure.width >= 1
                                       THEN configure.width
                                       ELSE @.width,
                             height |-> IF configure.height >= 1
                                        THEN configure.height
                                        ELSE @.height],
                !.configures = SubSeq(@, n + 1, Len(@))]

\* wc_xwayland_commit: the client commits its surface
wc_xwayland_commit(client, n) ==
    /\ Idle
    /\ Tracked
    /\ views[client].surface_type = "XWAYLAND"
    /\ views[client].mapped
    /\ n <= Len(views[client].configures)
    /\ LET view == ClientAcks(views[client], n)
       IN /\ views' = [views EXCEPT ![client] = wc_view_commit(view, SurfaceBox(view))]
          /\ \E surface_damage \in SurfaceDamages(view) :
                 output_damage' = Damaged(wc_view_commit_damage(
                                              view, SurfaceBox(view), surface_damage))
    /\ UNCHANGED <<client_error, grab_vars, key_vars, pointer_event,
                   wlr_cursor_xy, grabbed, grabbed_freed, next_serial, crashed,
                   focus_vars, layer_vars, frame, hotplug_vars>>

\* wc_xdg_surface_commit: the client commits its surface
wc_xdg_surface_commit(client, n) ==
    /\ Idle
    /\ Tracked
    /\ views[client].surface_type = "XDG"
    /\ n <= Len(views[client].configures)
    /\ LET view == ClientAcks(views[client], n)
       IN /\ views' = [views EXCEPT ![client] = wc_view_commit(view, SurfaceBox(view))]
          /\ \E surface_damage \in SurfaceDamages(view) :
                 output_damage' = Damaged(wc_view_commit_damage(
                                              view, SurfaceBox(view), surface_damage))
    /\ UNCHANGED <<client_error, grab_vars, key_vars, pointer_event,
                   wlr_cursor_xy, grabbed, grabbed_freed, next_serial, crashed,
                   focus_vars, layer_vars, frame, hotplug_vars>>

\* wc_xwayland_surface_unmap and wc_xdg_surface_unmap
wc_surface_unmap(client) ==
    /\ Idle
    /\ Tracked
    /\ views[client].mapped
    /\ views' = [views EXCEPT ![client].mapped = FALSE]
    /\ output_damage' = Damaged(wc_view_damage_whole(views[client]))
    /\ UNCHANGED <<client_error, grab_vars, key_vars, pointer_event,
                   wlr_cursor_xy, grabbed, grabbed_freed, next_serial, crashed,
                   focus_vars, layer_vars, frame, hotplug_vars>>

\* wc_xwayland_surface_destroy and wc_xdg_surface_destroy
wc_surface_destroy(client) ==
    /\ Idle
    /\ Tracked
    /\ views[client] /= NoView
    /\ ViewFreed(client)
    /\ UNCHANGED <<client_error, mg_resources, mousegrabber, mouse_grab,
                   mg_request, cursor, wlr_cursor_image, software_cursor_locks,
                   image_before_grab, kb_resources, keybindings,
                   registered_keys, key_event, terminated, round_trip, held_keys,
                   pointer_event, wlr_cursor_xy, grabbed, next_serial, crashed,
                   focus_event, output_vars>>

\* ------------------------------------------------------------------------
\* xkb_hash_set.c: the set keybindings.c queries through an out parameter

\* a zeroed struct hash_entry
NoEntry == [present |-> FALSE, mod_mask |-> {}]

\* the set as calloc leaves it in wc_keybindings_init
EmptyKeys == [key \in XkbKeycodes |-> NoEntry]

\* xkb_hash_set_clear
xkb_hash_set_clear(hash_set) == [key \in DOMAIN hash_set |-> NoEntry]

\* xkb_hash_set_add_entry that adds the mask to the bits already stored
xkb_hash_set_add_entry_or(hash_set, key, mask) ==
    [hash_set EXCEPT ![key] = [present |-> TRUE,
                               mod_mask |-> hash_set[key].mod_mask \cup mask]]

\* xkb_hash_set_add_entry
xkb_hash_set_add_entry(hash_set, key, mask) ==
    [hash_set EXCEPT ![key] = [present |-> TRUE, mod_mask |-> mask]]

\* xkb_hash_set_get_entry: the result, and the mask stored through
\* out_mask (which the caller initialised to 0)
xkb_hash_set_get_entry(hash_set, key) ==
    IF hash_set[key].present
    THEN [found |-> TRUE, out_mask |-> hash_set[key].mod_mask]
    ELSE [found |-> FALSE, out_mask |-> {}]

\* ------------------------------------------------------------------------
\* keybindings.c

NoRoundTrip == [phase |-> 0, key |-> 0, mods |-> {}, snap |-> EmptyKeys,
                alone |-> FALSE]

\* the history is not kept
RoundTripOff == [NoRoundTrip EXCEPT !.phase = -1]

\* no key is down
KeysUp == [key \in XkbKeycodes |-> "up"]

\* the keys that are down are not followed
HeldKeysOff == [key \in XkbKeycodes |-> "off"]

\* history of register / clear / register sequences: phase 1 after a
\* register, 2 after a clear that follows it, 3 after the same chord is
\* registered again; snap is the set as the first register left it, and
\* alone tells that no other keycode was registered when it was issued
RoundTripRegister(rt, before, after, key, mods) ==
    IF rt.phase = -1 THEN rt
    ELSE IF rt.phase = 2 /\ rt.key = key /\ rt.mods = mods
    THEN [rt EXCEPT !.phase = 3]
    ELSE [phase |-> 1, key |-> key, mods |-> mods, snap |-> after,
          alone |-> \A k \in DOMAIN before : k /= key => ~before[k].present]

RoundTripClear(rt, before) ==
    IF rt.phase = -1 THEN rt
    ELSE IF rt.phase \in {1, 3}
    THEN [rt EXCEPT !.phase = 2]
    ELSE NoRoundTrip

\* keybindings_bind
keybindings_bind(client) ==
    /\ Idle
    /\ CanBind(kb_resources, client)
    /\ kb_resources' = kb_resources \cup {NewResource(kb_resources, client)}
    /\ keybindings' = [keybindings EXCEPT
                           !.resource = NewResource(kb_resources, client)]
    /\ UNCHANGED <<client_error, grab_vars, view_vars, scene_vars, registered_keys, keyboard_focus,
                   key_event, terminated, round_trip, held_keys>>

\* register_key
register_key(resource, key, mods) ==
    /\ Idle
    /\ resource \in kb_resources
    /\ registered_keys' = xkb_hash_set_add_entry(registered_keys, key, mods)
    /\ round_trip' = RoundTripRegister(round_trip, registered_keys,
                                       registered_keys', key, mods)
    /\ UNCHANGED <<client_error, grab_vars, view_vars, scene_vars, kb_resources, keybindings,
                   keyboard_focus, key_event, terminated, held_keys>>

\* wc_keybindings_clear_keys
wc_keybindings_clear_keys(hash_set) == xkb_hash_set_clear(hash_set)

\* clear_keys
clear_keys(resource) ==
    /\ Idle
    /\ resource \in kb_resources
    /\ registered_keys' = wc_keybindings_clear_keys(registered_keys)
    /\ round_trip' = RoundTripClear(round_trip, registered_keys)
    /\ UNCHANGED <<client_error, grab_vars, view_vars, scene_vars, kb_resources, keybindings,
                   keyboard_focus, key_event, terminated, held_keys>>

\* keybindings_handle_resource_destroy: the bound client after the
\* resource is destroyed
keybindings_handle_resource_destroy(kb, resource) ==
    IF kb.resource = resource
    THEN [resource |-> NULL_RES, client |-> NULL_CLIENT]
    ELSE kb

\* wc_keybindings_notify_key_if_registered, the lookup: whether the key
\* with this mask counts as registered
KeyPresent(hash_set, key_code, key_mask) ==
    LET entry == xkb_hash_set_get_entry(hash_set, key_code)
    IN IF entry.found
       THEN (entry.out_mask \cap key_mask) /= {}
       ELSE FALSE

\* wc_keybindings_notify_key_if_registered that sends the key event only
\* for a registered key
notify_key_if_registered_send_if_present(kb, hash_set, focused_client, key_code, key_mask, pressed) ==
    IF kb.resource = NULL_RES
    THEN [present |-> FALSE, sent |-> NoKeySent]
    ELSE LET present == KeyPresent(hash_set, key_code, key_mask)
         IN [present |-> IF ~present /\ focused_client /= NULL_CLIENT
                         THEN present \/ focused_client = kb.client
                         ELSE present,
             sent |-> IF present
                      THEN [resource |-> kb.resource, keycode |-> key_code,
                            pressed |-> pressed, modifiers |-> key_mask]
                      ELSE NoKeySent]

\* wc_keybindings_notify_key_if_registered: the value returned and the key
\* event sent to the bound resource; focused_client is the client holding
\* the keyboard focus
wc_keybindings_notify_key_if_registered(kb, hash_set, focused_client, key_code, key_mask, pressed) ==
    IF kb.resource = NULL_RES
    THEN [present |-> FALSE, sent |-> NoKeySent]
    ELSE LET present == KeyPresent(hash_set, key_code, key_mask)
         IN [present |-> IF ~present /\ focused_client /= NULL_CLIENT
                         THEN present \/ focused_client = kb.client
                         ELSE present,
             sent |-> [resource |-> kb.resource, keycode |-> key_code,
                       pressed |-> pressed, modifiers |-> key_mask]]

\* ------------------------------------------------------------------------
\* keyboard.c

\* xkb_state_key_get_syms under the default keymap: the keysyms of a key
\* given the effective modifiers (Ctrl+Alt+F1 is the VT switch key)
KeySyms(keycode, mods) ==
    IF keycode = 9 THEN {"Escape"}
    ELSE IF keycode = 24 THEN {"q"}
    ELSE IF {"Control", "Mod1"} \subseteq mods THEN {"XF86Switch_VT_1"}
    ELSE {"F1"}

\* wc_keyboard_mod_is_active: XKB_STATE_MODS_DEPRESSED only
wc_keyboard_mod_is_active(depressed, mod_name) == mod_name \in depressed

\* the keysym loop of wc_keyboard_on_key: whether the compositor asks the
\* display to terminate
Terminates(syms, depressed) ==
    /\ "Escape" \in syms
    /\ wc_keyboard_mod_is_active(depressed, "Shift")
    /\ wc_keyboard_mod_is_active(depressed, "Control")

\* the keysym loop that switches the VT but leaves handled unset on the
\* terminator chord
HandledByCompositor_vt_only(syms, depressed) == "XF86Switch_VT_1" \in syms

\* the keysym loop of wc_keyboard_on_key: whether it handled the key
HandledByCompositor(syms, depressed) ==
    \/ "XF86Switch_VT_1" \in syms
    \/ Terminates(syms, depressed)

\* wc_keyboard_on_key
wc_keyboard_on_key(event_keycode, depressed, latched, locked, pressed) ==
    LET keycode == event_keycode + 8
        modifiers == depressed \cup latched \cup locked
        syms == KeySyms(keycode, modifiers)
        handled == HandledByCompositor(syms, depressed)
        notify == IF ~handled
                  THEN wc_keybindings_notify_key_if_registered(
                           keybindings, registered_keys, keyboard_focus,
                           keycode, modifiers, pressed)
                  ELSE [present |-> TRUE, sent |-> NoKeySent]
    IN /\ Idle
       /\ key_event' = [keycode |-> keycode, modifiers |-> modifiers,
                        depressed |-> depressed, pressed |-> pressed,
                        syms |-> syms,
                        \* wlr_seat_keyboard_notify_key
                        seat |-> ~notify.present,
                        \* zway_cooler_keybindings_send_key
                        sent |-> notify.sent,
                        \* wl_display_terminate
                        terminate |-> Terminates(syms, depressed)]
       /\ held_keys' = IF held_keys = HeldKeysOff
                       THEN held_keys
                       ELSE [held_keys EXCEPT ![keycode] =
                                IF ~pressed THEN "up"
                                ELSE IF handled THEN "compositor"
                                ELSE IF notify.present THEN "withheld"
                                ELSE "seat"]
       /\ UNCHANGED <<client_error, grab_vars, view_vars, scene_vars, kb_resources, keybindings,
                      registered_keys, keyboard_focus, terminated, round_trip>>

\* ------------------------------------------------------------------------
\* clients going away, and the event loop

\* the state once libwayland has destroyed the resources of a client,
\* their destroy handlers have run, and wlroots has dropped the focus and
\* the cursor surface the client owned
ClientGone(client) ==
    /\ mg_resources' = {r \in mg_resources : ResourceClient(r) /= client}
    /\ mousegrabber' = IF ResourceClient(mousegrabber.resource) = client
                       THEN mousegrabber_handle_resource_destroy(
                                mousegrabber, mousegrabber.resource)
                       ELSE mousegrabber
    /\ kb_resources' = {r \in kb_resources : ResourceClient(r) /= client}
    /\ keybindings' = IF ResourceClient(keybindings.resource) = client
                      THEN keybindings_handle_resource_destroy(
                               keybindings, keybindings.resource)
                      ELSE keybindings
    /\ ViewFreed(client)
    /\ wlr_cursor_image' = IF wlr_cursor_image = SurfaceImage(client)
                           THEN NoImage
                           ELSE wlr_cursor_image
    /\ client_error' = [client_error EXCEPT ![client] = "none"]

\* a client disconnects
wl_client_destroy(client) ==
    /\ Idle
    /\ ClientGone(client)
    /\ UNCHANGED <<mouse_grab, mg_request, cursor, software_cursor_locks,
                   image_before_grab, registered_keys, key_event, terminated,
                   round_trip, held_keys, pointer_event, wlr_cursor_xy, grabbed,
                   next_serial, crashed, focus_event, output_vars>>

\* wl_display_run, once a handler has returned: a client that was posted
\* a protocol error is destroyed, and the loop ends if wl_display_terminate
\* was called
wl_display_run ==
    /\ ~terminated
    /\ \/ mg_request /= NoRequest
       \/ key_event /= NoKey
       \/ pointer_event \notin {NoPointerEvent, PointerEventOff}
       \/ focus_event \notin {NoFocusEvent, FocusEventOff}
       \/ layer_event \notin {NoLayerEvent, LayerEventOff}
       \/ frame /= NoFrame
    /\ IF \E c \in Clients : client_error[c] /= "none"
       THEN ClientGone(CHOOSE c \in Clients : client_error[c] /= "none")
       ELSE UNCHANGED <<mg_resources, mousegrabber, kb_resources, keybindings,
                        pointer_focus, keyboard_focus, wlr_cursor_image,
                        client_error, views, grabbed_freed, server_views>>
    /\ terminated' = key_event.terminate
    /\ mg_request' = NoRequest
    /\ key_event' = NoKey
    /\ pointer_event' = IF pointer_event = PointerEventOff
                        THEN pointer_event
                        ELSE NoPointerEvent
    /\ focus_event' = IF focus_event = FocusEventOff
                      THEN focus_event
                      ELSE NoFocusEvent
    /\ layer_event' = IF layer_event = LayerEventOff
                      THEN layer_event
                      ELSE NoLayerEvent
    /\ frame' = NoFrame
    /\ UNCHANGED <<mouse_grab, cursor, software_cursor_locks, image_before_grab,
                   registered_keys, round_trip, held_keys, wlr_cursor_xy, grabbed,
                   next_serial, crashed, output_layers, layer_surfaces,
                   usable_area, output_damage, hotplug_vars>>

\* ------------------------------------------------------------------------
\* layer_shell.c: the arrangement of the layer surfaces of an output

LAYER_BOTH_HORIZ == {"LEFT", "RIGHT"}

LAYER_BOTH_VERT == {"TOP", "BOTTOM"}

\* the horizontal axis of wc_arrange_layer: x and width of a surface of the
\* given state within bounds
AnchoredHoriz(state, bounds) ==
    IF state.anchor \cap LAYER_BOTH_HORIZ /= {} /\ state.desired_width = 0
    THEN [x |-> bounds.x, width |-> bounds.width]
    ELSE IF "LEFT" \in state.anchor
    THEN [x |-> bounds.x, width |-> state.desired_width]
    ELSE IF "RIGHT" \in state.anchor
    THEN [x |-> bounds.x + (bounds.width - state.desired_width),
          width |-> state.desired_width]
    ELSE [x |-> bounds.x + ((bounds.width \div 2) - (state.desired_width \div 2)),
          width |-> state.desired_width]

\* the vertical axis of wc_arrange_layer
AnchoredVert(state, bounds) ==
    IF state.anchor \cap LAYER_BOTH_VERT /= {} /\ state.desired_height = 0
    THEN [y |-> bounds.y, height |-> bounds.height]
    ELSE IF "TOP" \in state.anchor
    THEN [y |-> bounds.y, height |-> state.desired_height]
    ELSE IF "BOTTOM" \in state.anchor
    THEN [y |-> bounds.y + (bounds.height - state.desired_height),
          height |-> state.desired_height]
    ELSE [y |-> bounds.y + ((bounds.height \div 2) - (state.desired_height \div 2)),
          height |-> state.desired_height]

\* the area of a surface after the two axes of wc_arrange_layer
Anchored(state, bounds) ==
    LET horiz == AnchoredHoriz(state, bounds)
        vert == AnchoredVert(state, bounds)
    IN Box(horiz.x, vert.y, horiz.width, vert.height)

\* the margins of wc_arrange_layer, applied to the anchored area
Margined(state, area) ==
    LET margin == state.margin
        horiz == IF LAYER_BOTH_HORIZ \subseteq state.anchor
                 THEN [x |-> area.x + margin.left,
                       width |-> area.width - (margin.left + margin.right)]
                 ELSE IF "LEFT" \in state.anchor
                 THEN [x |-> area.x + margin.left, width |-> area.width]
                 ELSE IF "RIGHT" \in state.anchor
                 THEN [x |-> area.x - margin.right, width |-> area.width]
                 ELSE [x |-> area.x, width |-> area.width]
        vert == IF LAYER_BOTH_VERT \subseteq state.anchor
                THEN [y |-> area.y + margin.top,
                      height |-> area.height - (margin.top + margin.bottom)]
                ELSE IF "TOP" \in state.anchor
                THEN [y |-> area.y + margin.top, height |-> area.height]
                ELSE IF "BOTTOM" \in state.anchor
                THEN [y |-> area.y - margin.bottom, height |-> area.height]
                ELSE [y |-> area.y, height |-> area.height]
    IN Box(horiz.x, vert.y, horiz.width, vert.height)

\* the bounds wc_arrange_layer places a surface of the given state in
LayerBounds(state, usable) ==
    IF state.exclusive_zone = -1
    THEN Box(0, 0, OutputWidth, OutputHeight)
    ELSE usable

\* the test of wc_arrange_layer that closes a surface instead of
\* configuring it, as written: the width is tested twice
ArrangedAway(arranged_area) == arranged_area.width < 0 \/ arranged_area.width < 0

\* the end of the body of the loop of wc_arrange_layer: the surface whose
\* area has been computed is closed or configured; arranged is
\* [layer_surfaces, usable_area, log]
LayerArranged(arranged, surface, state, anchored, arranged_area) ==
    LET entry(op) == [op |-> op, surface |-> surface, state |-> state,
                      anchored |-> anchored, arranged_area |-> arranged_area]
    IN IF ArrangedAway(arranged_area)
       THEN [arranged EXCEPT
                !.layer_surfaces[surface].closed = TRUE,
                !.log = Append(@, entry("close"))]
       ELSE [arranged EXCEPT
                !.layer_surfaces[surface].geo = arranged_area,
                !.layer_surfaces[surface].configured =
                    <<arranged_area.width, arranged_area.height>>,
                !.log = Append(@, entry("configure"))]

\* wc_arrange_layer for the first n surfaces of a list, which the loop
\* visits last to first
RECURSIVE wc_arrange_layer(_, _, _, _)
wc_arrange_layer(arranged, layers, n, exclusive) ==
    IF n = 0
    THEN arranged
    ELSE LET state == arranged.layer_surfaces[layers[n]].current
         IN wc_arrange_layer(
                IF exclusive /= (state.exclusive_zone > 0)
                THEN arranged
                ELSE LayerArranged(
                         arranged, layers[n], state,
                         Anchored(state, LayerBounds(state, arranged.usable_area)),
                         Margined(state, Anchored(state, LayerBounds(
                                                      state, arranged.usable_area)))),
                layers, n - 1, exclusive)

\* wc_arrange_layer for the four layers in the order of
\* wc_layer_shell_arrange_layers
ArrangePass(arranged, lists, exclusive) ==
    LET overlay == wc_arrange_layer(arranged, lists["OVERLAY"], Len(lists["OVERLAY"]), exclusive)
        top == wc_arrange_layer(overlay, lists["TOP"], Len(lists["TOP"]), exclusive)
        bottom == wc_arrange_layer(top, lists["BOTTOM"], Len(lists["BOTTOM"]), exclusive)
    IN wc_arrange_layer(bottom, lists["BACKGROUND"], Len(lists["BACKGROUND"]), exclusive)

\* the surface of a list that the loop of wc_layer_shell_arrange_layers
\* stops at: the last one with keyboard_interactive, NULL_LAYER if none
Interactive(surfaces, layers) ==
    LET set == {i \in 1..Len(layers) : surfaces[layers[i]].current.keyboard_interactive}
    IN IF set = {}
       THEN NULL_LAYER
       ELSE layers[CHOOSE i \in set : \A j \in set : j <= i]

\* topmost of wc_layer_shell_arrange_layers
Topmost(surfaces, lists) ==
    IF Interactive(surfaces, lists["OVERLAY"]) /= NULL_LAYER
    THEN Interactive(surfaces, lists["OVERLAY"])
    ELSE Interactive(surfaces, lists["TOP"])

\* the keyboard focus when a layer surface holds it, told apart from the
\* clients of the views
LayerFocus(surface) == 0 - surface

\* wc_seat_set_focus_layer: the keyboard focus of the seat after the call
wc_seat_set_focus_layer(focused, layer) == focused

\* wc_layer_shell_arrange_layers: the layer surfaces, the usable area of
\* the output and the keyboard focus after the call, and what it did
wc_layer_shell_arrange_layers(surfaces, lists, focused) ==
    LET start == [layer_surfaces |-> surfaces,
                  usable_area |-> Box(0, 0, OutputWidth, OutputHeight),
                  log |-> <<>>]
        exclusive == ArrangePass(start, lists, TRUE)
        others == ArrangePass(exclusive, lists, FALSE)
        topmost == Topmost(others.layer_surfaces, lists)
    IN [layer_surfaces |-> others.layer_surfaces,
        usable_area |-> exclusive.usable_area,
        log |-> others.log,
        focus_layer |-> topmost,
        keyboard_focus |-> wc_seat_set_focus_layer(focused, topmost)]

\* the arrangement as the last step's event
LayerEvent(arrangement) ==
    IF layer_event = LayerEventOff
    THEN layer_event
    ELSE [arranged |-> TRUE, log |-> arrangement.log,
          focus_layer |-> arrangement.focus_layer]

\* output_damage_surface: the boxes added to the damage of the output for
\* the surface of a layer at (ox, oy); a mapped layer surface has a buffer
\* of the size it was configured with, another has none
output_damage_surface(wc_layer, ox, oy) ==
    IF wc_layer.mapped
    THEN {Box(ox, oy, wc_layer.geo.width, wc_layer.geo.height)}
    ELSE {}

\* wc_layer_shell_new_surface: the first commit of a surface the client
\* made for the layer, with the given state, which is pending and has been
\* made current by the commit
wc_layer_shell_new_surface(surface, layer, state) ==
    /\ Idle
    /\ layer_surfaces[surface] = NoLayer
    /\ LET wc_layer == [NoLayer EXCEPT !.layer = layer,
                                       !.current = state,
                                       !.client_pending = state]
           old_state == wc_layer.current
           lists == [output_layers EXCEPT ![layer] = <<surface>> \o @]
           arrangement == wc_layer_shell_arrange_layers(
               [layer_surfaces EXCEPT ![surface] =
                    [wc_layer EXCEPT !.current = wc_layer.client_pending]],
               lists, keyboard_focus)
       IN /\ output_layers' = lists
          /\ layer_surfaces' = [arrangement.layer_surfaces EXCEPT
                                   ![surface].current = old_state]
          /\ usable_area' = arrangement.usable_area
          /\ keyboard_focus' = arrangement.keyboard_focus
          /\ layer_event' = LayerEvent(arrangement)
    /\ UNCHANGED <<client_error, grab_vars, kb_resources, keybindings,
                   registered_keys, key_event, terminated, round_trip, held_keys,
                   view_vars, focus_vars, frame_vars, hotplug_vars>>

\* wc_layer_shell_commit: the pending state of the surface has become
\* its current state
wc_layer_shell_commit(surface) ==
    /\ Idle
    /\ layer_surfaces[surface] /= NoLayer
    /\ LET arrangement == wc_layer_shell_arrange_layers(
               [layer_surfaces EXCEPT ![surface].current = layer_surfaces[surface].client_pending],
               output_layers, keyboard_focus)
       IN /\ layer_surfaces' = arrangement.layer_surfaces
          /\ usable_area' = arrangement.usable_area
          /\ keyboard_focus' = arrangement.keyboard_focus
          /\ layer_event' = LayerEvent(arrangement)
          /\ LET old_geo == layer_surfaces[surface].geo
                 wc_layer == arrangement.layer_surfaces[surface]
             IN output_damage' =
                    Damaged((IF old_geo /= wc_layer.geo
                             THEN output_damage_surface(wc_layer, old_geo.x, old_geo.y)
                             ELSE {})
                            \cup output_damage_surface(wc_layer, wc_layer.geo.x,
                                                       wc_layer.geo.y))
    /\ UNCHANGED <<client_error, grab_vars, kb_resources, keybindings,
                   registered_keys, key_event, terminated, round_trip, held_keys,
                   view_vars, focus_vars, output_layers, frame, hotplug_vars>>

\* wc_layer_shell_map: the surface has a buffer
wc_layer_shell_map(surface) ==
    /\ Idle
    /\ layer_surfaces[surface] /= NoLayer
    /\ ~layer_surfaces[surface].mapped
    /\ layer_surfaces' = [layer_surfaces EXCEPT ![surface].mapped = TRUE]
    /\ LET wc_layer == layer_surfaces'[surface]
       IN output_damage' = Damaged(output_damage_surface(
                                       wc_layer, wc_layer.geo.x, wc_layer.geo.y))
    /\ UNCHANGED <<client_error, grab_vars, key_vars, view_vars, focus_vars,
                   output_layers, usable_area, layer_event, frame, hotplug_vars>>

\* wc_layer_shell_unmap: the surface has lost its buffer, or is being
\* closed with the buffer it had
wc_layer_shell_unmap(surface) ==
    /\ Idle
    /\ layer_surfaces[surface].mapped
    /\ layer_surfaces' = [layer_surfaces EXCEPT ![surface].mapped = FALSE]
    /\ \E buffer \in IF output_damage = DamageOff THEN {FALSE} ELSE BOOLEAN :
           LET wc_layer == [layer_surfaces[surface] EXCEPT !.mapped = buffer]
           IN output_damage' = Damaged(output_damage_surface(
                                           wc_layer, wc_layer.geo.x, wc_layer.geo.y))
    /\ UNCHANGED <<client_error, grab_vars, key_vars, view_vars, focus_vars,
                   output_layers, usable_area, layer_event, frame, hotplug_vars>>

\* wc_layer_shell_destroy
wc_layer_shell_destroy(surface) ==
    /\ Idle
    /\ layer_surfaces[surface] /= NoLayer
    /\ output_layers' = [l \in Layers |->
                             SelectSeq(output_layers[l], LAMBDA ls : ls /= surface)]
    /\ layer_surfaces' = [layer_surfaces EXCEPT ![surface] = NoLayer]
    /\ UNCHANGED <<client_error, grab_vars, key_vars, view_vars, focus_vars,
                   usable_area, layer_event, frame_vars, hotplug_vars>>

\* ------------------------------------------------------------------------
\* output.c: the frames of the output

\* a step of the frame: what was painted, of which layer surface or view,
\* and where
Painted(op, layer, surface, painted) == [op |-> op, layer |-> layer, surface |-> surface, painted |-> painted]

\* a surface drawn without the scissor of the rectangles of the damage
wc_render_surface_unclipped(box, damage) == IF damage = {} THEN {} ELSE {box}

\* wc_render_surface: the texture of the surface is drawn over its box
\* once for each rectangle of the damage, under the scissor of that
\* rectangle; the parts of the output it reaches
wc_render_surface(box, damage) ==
    {Intersection(box, rect) : rect \in {r \in damage : Intersects(box, r)}}

\* wc_render_view: the box the surface of a view is drawn over
ViewBox(view) == Box(view.geo.x, view.geo.y, view.surface.width, view.surface.height)

\* wc_render_layers: the first n surfaces of the list of a layer, the last
\* of them first
RECURSIVE wc_render_layers(_, _, _)
wc_render_layers(layer, n, damage) ==
    IF n = 0
    THEN <<>>
    ELSE LET surface == output_layers[layer][n]
             wc_layer == layer_surfaces[surface]
         IN (IF ~wc_layer.mapped
             THEN <<>>
             ELSE <<Painted("layer", layer, surface,
                            wc_render_surface(wc_layer.geo, damage))>>)
            \o wc_render_layers(layer, n - 1, damage)

\* the loop over the views with the head of the list drawn first
RECURSIVE wc_render_views_head_first(_, _)
wc_render_views_head_first(n, damage) ==
    IF n = 0
    THEN <<>>
    ELSE LET view == views[server_views[n]]
         IN wc_render_views_head_first(n - 1, damage)
            \o (IF ~view.mapped
                THEN <<>>
                ELSE <<Painted("view", "none", server_views[n],
                               wc_render_surface(ViewBox(view), damage))>>)

\* wc_output_frame, the loop over server->views: the first n views of the
\* list, the last of them first
RECURSIVE wc_render_views(_, _)
wc_render_views(n, damage) ==
    IF n = 0
    THEN <<>>
    ELSE LET view == views[server_views[n]]
         IN (IF ~view.mapped
             THEN <<>>
             ELSE <<Painted("view", "none", server_views[n],
                            wc_render_surface(ViewBox(view), damage))>>)
            \o wc_render_views(n - 1, damage)

\* a frame that is over once it finds its damage empty
wc_output_paint_damage_only(needs_swap, damage) ==
    IF ~needs_swap \/ damage = {}
    THEN <<>>
    ELSE <<Painted("clear", "none", 0, damage)>>
         \o wc_render_layers("BACKGROUND", Len(output_layers["BACKGROUND"]), damage)
         \o wc_render_layers("BOTTOM", Len(output_layers["BOTTOM"]), damage)
         \o wc_render_views(Len(server_views), damage)
         \o wc_render_layers("TOP", Len(output_layers["TOP"]), damage)
         \o wc_render_layers("OVERLAY", Len(output_layers["OVERLAY"]), damage)
         \o <<Painted("cursors", "none", 0, damage),
              Painted("commit", "none", 0, damage)>>

\* wc_output_frame once the renderer is attached: what it paints, in order
wc_output_paint(needs_swap, damage) ==
    IF ~needs_swap
    THEN <<>>
    ELSE (IF damage = {}
          THEN <<>>
          ELSE <<Painted("clear", "none", 0, damage)>>
               \o wc_render_layers("BACKGROUND", Len(output_layers["BACKGROUND"]), damage)
               \o wc_render_layers("BOTTOM", Len(output_layers["BOTTOM"]), damage)
               \o wc_render_views(Len(server_views), damage)
               \o wc_render_layers("TOP", Len(output_layers["TOP"]), damage)
               \o wc_render_layers("OVERLAY", Len(output_layers["OVERLAY"]), damage))
         \* renderer_end: wlr_output_render_software_cursors, wlr_output_commit
         \o <<Painted("cursors", "none", 0, damage),
              Painted("commit", "none", 0, damage)>>

\* wlr_output_damage_attach_render: whether it attached the renderer, and
\* the needs_swap and the damage it gives; needs_frame is the flag of the
\* wlr_output, previous the damage of the buffer being drawn to that the
\* frames since it was shown have left, the whole output when its age is
\* not known
wlr_output_damage_attach_render(attached, needs_frame, previous) ==
    [called |-> TRUE,
     attached |-> attached,
     needs_swap |-> attached /\ (needs_frame \/ output_damage /= {}),
     damage |-> IF attached THEN RegionUnion(output_damage, previous) ELSE {},
     log |-> <<>>]

\* wc_output_frame
wc_output_frame(attached, needs_frame, previous) ==
    /\ Idle
    /\ output_damage /= DamageOff
    /\ LET render == wlr_output_damage_attach_render(attached, needs_frame, previous)
       IN /\ frame' = [render EXCEPT
                           !.log = IF render.attached
                                   THEN wc_output_paint(render.needs_swap, render.damage)
                                   ELSE <<>>]
          \* wlr_output_commit leaves the current region of the tracker empty
          /\ output_damage' = IF render.needs_swap THEN {} ELSE output_damage
    /\ UNCHANGED <<client_error, grab_vars, key_vars, view_vars, focus_vars,
                   layer_vars, hotplug_vars>>

\* ------------------------------------------------------------------------
\* output.c: outputs come and go

\* wc_new_output: the backend announces an output. The damage, the usable
\* area and the layers the model keeps are those of output 1; the
\* arrangement of the empty layers of a new output is not recorded
wc_new_output(output) ==
    /\ Idle
    /\ \A i \in DOMAIN server_outputs : server_outputs[i] /= output
    \* wl_list_insert(&server->outputs, &output->link)
    /\ server_outputs' = <<output>> \o server_outputs
    /\ active_output' = IF active_output = NULL_OUTPUT
                        THEN output
                        ELSE active_output
    \* a new wlr_output holds no software cursor lock
    /\ software_cursor_locks' = [software_cursor_locks EXCEPT ![output] = 0]
    \* wc_layer_shell_arrange_layers(output)
    /\ usable_area' = IF output = 1 THEN OutputBox ELSE usable_area
    \* wlr_output_damage_add_whole of every output
    /\ output_damage' = IF output_damage = DamageOff
                        THEN output_damage
                        ELSE IF \E i \in DOMAIN server_outputs' : server_outputs'[i] = 1
                        THEN {OutputBox}
                        ELSE output_damage
    /\ UNCHANGED <<client_error, mg_resources, mousegrabber, mouse_grab,
                   mg_request, cursor, wlr_cursor_image, pointer_focus,
                   image_before_grab, key_vars, view_vars, focus_vars,
                   output_layers, layer_surfaces, layer_event, frame>>

\* wc_output_destroy: the output is unplugged
wc_output_destroy(output) ==
    /\ Idle
    /\ \E i \in DOMAIN server_outputs : server_outputs[i] = output
    /\ LET \* wl_list_remove(&output->link)
           rest == SelectSeq(server_outputs, LAMBDA o : o /= output)
       IN /\ server_outputs' = rest
          /\ active_output' = IF active_output /= output
                              THEN active_output
                              ELSE IF rest /= <<>>
                              \* wl_container_of(server->outputs.prev, ...)
                              THEN rest[Len(rest)]
                              ELSE NULL_OUTPUT
    \* wc_layer_shell_destroy of every layer surface of the output
    /\ output_layers' = IF output = 1
                        THEN [l \in Layers |-> <<>>]
                        ELSE output_layers
    /\ layer_surfaces' = IF output = 1
                         THEN [ls \in LayerSurfaces |-> NoLayer]
                         ELSE layer_surfaces
    \* the wlr_output goes away with its lock counter
    /\ software_cursor_locks' = [software_cursor_locks EXCEPT ![output] = 0]
    /\ UNCHANGED <<client_error, mg_resources, mousegrabber, mouse_grab,
                   mg_request, cursor, wlr_cursor_image, pointer_focus,
                   image_before_grab, key_vars, view_vars, focus_vars,
                   usable_area, layer_event, frame_vars>>

\* ------------------------------------------------------------------------
\* Specifications

\* the state after wc_cursor_init, wc_seat_init, wc_mousegrabber_init and
\* wc_keybindings_init
InitServer ==
    /\ client_error = [c \in Clients |-> "none"]
    /\ mg_resources = {}
    /\ mousegrabber = [resource |-> NULL_RES, client |-> NULL_CLIENT]
    /\ mouse_grab = FALSE
    /\ mg_request = NoRequest
    /\ cursor = [cursor_mode |-> "PASSTHROUGH", compositor_image |-> NULL_NAME,
                 use_client_image |-> TRUE, default_image |-> "left_ptr"]
    /\ wlr_cursor_image = NoImage
    /\ software_cursor_locks = [o \in Outputs |-> 0]
    /\ pointer_focus = NULL_CLIENT
    /\ image_before_grab = NoImage
    /\ kb_resources = {}
    /\ keybindings = [resource |-> NULL_RES, client |-> NULL_CLIENT]
    /\ registered_keys = EmptyKeys
    /\ keyboard_focus = NULL_CLIENT
    /\ key_event = NoKey
    /\ terminated = FALSE
    /\ wlr_cursor_xy = <<0, 0>>
    /\ grabbed = NoGrabbed
    /\ grabbed_freed = FALSE
    /\ next_serial = 1
    /\ crashed = FALSE

\* the backend has announced every output: wc_new_output has listed each
\* and made the first one the active output
OutputsPlugged ==
    /\ server_outputs = AllOutputs
    /\ active_output = 1

\* the output after wc_new_output, which arranges its empty layers; the
\* arrangements are not recorded
LayersOff ==
    /\ output_layers = [l \in Layers |-> <<>>]
    /\ layer_surfaces = [ls \in LayerSurfaces |-> NoLayer]
    /\ usable_area = Box(0, 0, OutputWidth, OutputHeight)
    /\ layer_event = LayerEventOff
    /\ output_damage = DamageOff
    /\ frame = NoFrame

\* no view is listed and the calls of wc_focus_view are not recorded
SceneOff ==
    /\ server_views = <<>>
    /\ focus_event = FocusEventOff
    /\ LayersOff

\* the server after wc_server_init, with the views left out of the state
Init ==
    /\ InitServer
    /\ round_trip = RoundTripOff
    /\ held_keys = HeldKeysOff
    /\ OutputsPlugged
    /\ pointer_event = PointerEventOff
    /\ views = ViewsOff
    /\ SceneOff

\* the same state, with the history of filter requests kept
InitFilter ==
    /\ InitServer
    /\ round_trip = NoRoundTrip
    /\ held_keys = HeldKeysOff
    /\ OutputsPlugged
    /\ pointer_event = PointerEventOff
    /\ views = ViewsOff
    /\ SceneOff

\* the same state, with the outcome of pointer events recorded
InitPointer ==
    /\ InitServer
    /\ round_trip = RoundTripOff
    /\ held_keys = HeldKeysOff
    /\ OutputsPlugged
    /\ pointer_event = NoPointerEvent
    /\ views = ViewsOff
    /\ SceneOff

\* a view of the given shell, mapped with a surface of the given size
MappedView(surface_type, width, height) ==
    [NewView(surface_type) EXCEPT
        !.mapped = TRUE,
        !.activated = TRUE,
        !.geo = Box(0, 0, width, height),
        !.surface = [width |-> width, height |-> height],
        !.window = IF surface_type = "XWAYLAND"
                   THEN [width |-> width, height |-> height]
                   ELSE @]

\* the server once the first client has mapped a view of either shell and
\* committed its surface, square and of the largest size
InitResize ==
    /\ InitServer
    /\ round_trip = RoundTripOff
    /\ held_keys = HeldKeysOff
    /\ OutputsPlugged
    /\ pointer_event = NoPointerEvent
    /\ \E t \in {"XDG", "XWAYLAND"} :
           views = [c \in Clients |-> IF c = 1
                                      THEN MappedView(t, MaxSize, MaxSize)
                                      ELSE NoView]
    /\ server_views = <<1>>
    /\ focus_event = FocusEventOff
    /\ LayersOff

\* the same state, with the list of views, which is empty
InitView ==
    /\ InitServer
    /\ round_trip = RoundTripOff
    /\ held_keys = HeldKeysOff
    /\ OutputsPlugged
    /\ pointer_event = NoPointerEvent
    /\ views = [c \in Clients |-> NoView]
    /\ SceneOff

NextGrab ==
    \/ \E c \in Clients : mousegrabber_bind(c)
    \/ \E r \in Resources, n \in CursorNames : grab_mouse(r, n)
    \/ \E r \in Resources : release_mouse(r)
    \/ \E at \in Clients \cup {NULL_CLIENT} : wc_process_motion(at, 0, 0)
    \/ \E released \in BOOLEAN :
           wc_cursor_button("BTN_LEFT", released, NULL_CLIENT)
    \/ \E c \in Clients : wc_view_move(c)
    \/ \E c \in Clients : wc_view_resize(c, {"TOP", "LEFT"})
    \/ \E c \in Clients : wc_seat_request_cursor(c)
    \/ \E c \in Clients : wl_client_destroy(c)
    \/ wl_display_run

SpecGrab == Init /\ [][NextGrab]_vars

NextKeys ==
    \/ \E c \in Clients : keybindings_bind(c)
    \/ \E r \in Resources, k \in RegisterKeycodes, m \in RegisterMasks :
           register_key(r, k, m)
    \/ \E r \in Resources : clear_keys(r)
    \/ \E k \in EventKeycodes, m \in ModifierStates, p \in BOOLEAN :
           wc_keyboard_on_key(k, m.depressed, m.latched, m.locked, p)
    \/ \E at \in Clients : wc_cursor_button("BTN_LEFT", FALSE, at)
    \/ \E c \in Clients : wl_client_destroy(c)
    \/ wl_display_run

SpecKeys == Init /\ [][NextKeys]_vars

NextFilter ==
    \/ \E c \in Clients : keybindings_bind(c)
    \/ \E r \in Resources, k \in RegisterKeycodes, m \in RegisterMasks :
           register_key(r, k, m)
    \/ \E r \in Resources : clear_keys(r)
    \/ \E c \in Clients : wl_client_destroy(c)

SpecFilter == InitFilter /\ [][NextFilter]_vars

\* the state after wc_server_init, with the keys that are down followed
InitPress ==
    /\ InitServer
    /\ round_trip = RoundTripOff
    /\ held_keys = KeysUp
    /\ OutputsPlugged
    /\ pointer_event = PointerEventOff
    /\ views = ViewsOff
    /\ SceneOff

\* modifier states of the keys pressed and released: nothing, Ctrl+Alt
\* held, and either with caps lock on
PressStates ==
    {m \in ModifierStates : m.latched = {} /\ m.locked \subseteq {"Lock"} /\ m.depressed \in {{}, {"Control", "Mod1"}}}

\* a controller binds the filter, registers chords and clears them; a key
\* that is up is pressed and a key that is down is released, the modifier
\* state being any at either event; a click gives a client the keyboard
\* focus
NextPress ==
    \/ \E c \in Clients : keybindings_bind(c)
    \/ \E r \in Resources, k \in RegisterKeycodes, m \in {{"Control", "Mod1"}, {"Lock"}} : register_key(r, k, m)
    \/ \E r \in Resources : clear_keys(r)
    \/ \E k \in EventKeycodes, m \in PressStates : held_keys[k + 8] = "up" /\ wc_keyboard_on_key(k, m.depressed, m.latched, m.locked, TRUE)
    \/ \E k \in EventKeycodes, m \in PressStates : held_keys[k + 8] /= "up" /\ wc_keyboard_on_key(k, m.depressed, m.latched, m.locked, FALSE)
    \/ \E at \in Clients : wc_cursor_button("BTN_LEFT", FALSE, at)
    \/ wl_display_run

SpecPress == InitPress /\ [][NextPress]_vars

NextPointer ==
    \/ \E c \in Clients : mousegrabber_bind(c)
    \/ \E r \in Resources : grab_mouse(r, "watch")
    \/ \E r \in Resources : release_mouse(r)
    \/ \E at \in Clients \cup {NULL_CLIENT}, x \in Coords :
           wc_process_motion(at, x, 0)
    \/ \E b \in Buttons, released \in BOOLEAN, at \in Clients \cup {NULL_CLIENT} :
           wc_cursor_button(b, released, at)
    \/ \E c \in Clients : wc_view_move(c)
    \/ \E c \in Clients : wc_view_resize(c, {"TOP", "LEFT"})
    \/ \E c \in Clients : wl_client_destroy(c)
    \/ wl_display_run

SpecPointer == InitPointer /\ [][NextPointer]_vars

\* the clients whose view wc_view_at can find
\* as InitResize with the smallest view, which a drag of the cursor can
\* shrink to nothing
InitShrink ==
    /\ InitServer
    /\ round_trip = RoundTripOff
    /\ held_keys = HeldKeysOff
    /\ OutputsPlugged
    /\ pointer_event = NoPointerEvent
    /\ \E t \in {"XDG", "XWAYLAND"} :
           views = [c \in Clients |-> IF c = 1
                                      THEN MappedView(t, 1, 1)
                                      ELSE NoView]
    /\ server_views = <<1>>
    /\ focus_event = FocusEventOff
    /\ LayersOff

Mapped == {c \in Clients : views[c].mapped}

\* positions and sizes stay within the bounds
Bounded(view) ==
    /\ view.geo.x \in -MaxCoord..MaxCoord
    /\ view.geo.y \in -MaxCoord..MaxCoord
    /\ view.pending_geometry.width <= MaxSize
    /\ view.pending_geometry.height <= MaxSize

NextView ==
    \/ \E c \in ViewClients : wc_new_surface(c, "XWAYLAND")
    \/ \E c \in ViewClients : wc_xwayland_surface_map(c, MaxSize, MaxSize)
    \/ \E c \in ViewClients : wc_surface_destroy(c)
    \/ \E at \in Mapped \cup {NULL_CLIENT}, p \in CursorPoints :
           /\ wc_process_motion(at, p[1], p[2])
           /\ \A c \in Clients : Bounded(views'[c])
    \/ \E released \in BOOLEAN :
           wc_cursor_button("BTN_LEFT", released, NULL_CLIENT)
    \/ \E c \in ViewClients : wc_view_move(c)
    \/ wl_display_run

SpecView == InitView /\ [][NextView]_vars

NextResize ==
    \/ \E at \in Mapped \cup {NULL_CLIENT}, p \in CursorPoints :
           /\ wc_process_motion(at, p[1], p[2])
           /\ \A c \in Clients : Bounded(views'[c])
    \/ wc_cursor_button("BTN_LEFT", TRUE, NULL_CLIENT)
    \/ \E c \in Mapped, e \in ResizeEdges :
           next_serial <= MaxSerial /\ wc_view_resize(c, e)
    \/ \E c \in Mapped, n \in 0..MaxSerial : wc_xwayland_commit(c, n)
    \/ \E c \in Mapped, n \in 0..MaxSerial : wc_xdg_surface_commit(c, n)
    \/ wl_display_run

SpecResize == InitResize /\ [][NextResize]_vars

SpecShrink == InitShrink /\ [][NextResize]_vars

\* the requests for an interactive move or resize, with the motions that
\* send no configure
NextRequest ==
    \/ \E at \in Mapped \cup {NULL_CLIENT}, p \in CursorPoints :
           /\ cursor.cursor_mode /= "RESIZE"
           /\ wc_process_motion(at, p[1], p[2])
           /\ \A c \in Clients : Bounded(views'[c])
    \/ \E released \in BOOLEAN :
           wc_cursor_button("BTN_LEFT", released, NULL_CLIENT)
    \/ \E c \in Mapped : wc_view_move(c)
    \/ \E c \in Mapped, e \in ResizeEdges : wc_view_resize(c, e)
    \/ wl_display_run

SpecRequest == InitResize /\ [][NextRequest]_vars

\* the server after wc_server_init, with the list of views, which is
\* empty, and the calls of wc_focus_view recorded
InitFocus ==
    /\ InitServer
    /\ round_trip = RoundTripOff
    /\ held_keys = HeldKeysOff
    /\ OutputsPlugged
    /\ pointer_event = PointerEventOff
    /\ views = [c \in Clients |-> NoView]
    /\ server_views = <<>>
    /\ focus_event = NoFocusEvent
    /\ LayersOff

\* views of both shells are created, mapped, clicked, unmapped and destroyed
NextFocus ==
    \/ \E c \in Clients, t \in {"XDG", "XWAYLAND"} : wc_new_surface(c, t)
    \/ \E c \in Clients : wc_xwayland_surface_map(c, 1, 1)
    \/ \E c \in Clients : wc_xdg_surface_map(c, 1, 1)
    \/ \E c \in Mapped : wc_cursor_button("BTN_LEFT", FALSE, c)
    \/ \E c \in Clients : wc_surface_unmap(c)
    \/ \E c \in Clients : wc_surface_destroy(c)
    \/ wl_display_run

SpecFocus == InitFocus /\ [][NextFocus]_vars

\* the states a client gives a layer surface: any anchors, either extent
\* left to the compositor or not, with or without an exclusive zone
LayerStates == {LayerState(anchor, width, height, zone, margin, FALSE) : anchor \in SUBSET (LAYER_BOTH_HORIZ \cup LAYER_BOTH_VERT), width \in {0, BarExtent}, height \in {0, BarExtent}, zone \in {-1, 0, BarExtent}, margin \in MarginSizes}

\* the states of a bar: along the top or the left edge of the output,
\* BarExtent thick, which it reserves, with or without keyboard
\* interactivity
BarStates == {LayerState(LAYER_BOTH_HORIZ \cup {"TOP"}, 0, BarExtent, BarExtent, 0, interactive) : interactive \in BOOLEAN} \cup {LayerState(LAYER_BOTH_VERT \cup {"LEFT"}, BarExtent, 0, BarExtent, 0, interactive) : interactive \in BOOLEAN}

\* the server with its output, no layer surface yet, the arrangements
\* recorded
InitLayers ==
    /\ InitServer
    /\ round_trip = RoundTripOff
    /\ held_keys = HeldKeysOff
    /\ OutputsPlugged
    /\ pointer_event = PointerEventOff
    /\ views = ViewsOff
    /\ server_views = <<>>
    /\ focus_event = FocusEventOff
    /\ output_layers = [l \in Layers |-> <<>>]
    /\ layer_surfaces = [ls \in LayerSurfaces |-> NoLayer]
    /\ usable_area = Box(0, 0, OutputWidth, OutputHeight)
    /\ layer_event = NoLayerEvent
    /\ output_damage = DamageOff
    /\ frame = NoFrame

\* one client makes a layer surface of any state in the top layer, the
\* others make bars in the top and overlay layers; a view is clicked and
\* takes the focus
NextLayers ==
    \/ \E state \in LayerStates : wc_layer_shell_new_surface(1, "TOP", state)
    \/ \E surface \in LayerSurfaces \ {1}, layer \in {"TOP", "OVERLAY"}, state \in BarStates :
           wc_layer_shell_new_surface(surface, layer, state)
    \/ \E surface \in LayerSurfaces : wc_layer_shell_commit(surface)
    \/ \E surface \in LayerSurfaces : wc_layer_shell_destroy(surface)
    \/ \E c \in ViewClients : wc_cursor_button("BTN_LEFT", FALSE, c)
    \/ wl_display_run

SpecLayers == InitLayers /\ [][NextLayers]_vars

\* a bar along the bottom edge of the output, BarExtent thick
BottomBar == LayerState(LAYER_BOTH_HORIZ \cup {"BOTTOM"}, 0, BarExtent, 0, 0, FALSE)

\* a bar along the top edge of the output, BarExtent thick
TopBar == LayerState(LAYER_BOTH_HORIZ \cup {"TOP"}, 0, BarExtent, 0, 0, FALSE)

\* the server after wc_new_output, which damages the whole output; no view
\* and no layer surface yet, the frames recorded
InitFrame ==
    /\ InitServer
    /\ round_trip = RoundTripOff
    /\ held_keys = HeldKeysOff
    /\ OutputsPlugged
    /\ pointer_event = PointerEventOff
    /\ views = [c \in Clients |-> NoView]
    /\ server_views = <<>>
    /\ focus_event = FocusEventOff
    /\ output_layers = [l \in Layers |-> <<>>]
    /\ layer_surfaces = [ls \in LayerSurfaces |-> NoLayer]
    /\ usable_area = OutputBox
    /\ layer_event = LayerEventOff
    /\ output_damage = {OutputBox}
    /\ frame = NoFrame

\* clients map, click and unmap views; one client puts a bar along the
\* bottom edge in a layer below the views, the others a bar along the top
\* edge in a layer above them; the output has frames
NextFrame ==
    \/ \E c \in Clients : wc_new_surface(c, "XDG")
    \/ \E c \in Clients : wc_xdg_surface_map(c, 1, 1)
    \/ \E c \in Mapped : wc_cursor_button("BTN_LEFT", FALSE, c)
    \/ \E c \in Clients : wc_surface_unmap(c)
    \/ \E layer \in {"BACKGROUND", "BOTTOM"} : wc_layer_shell_new_surface(1, layer, BottomBar)
    \/ \E surface \in LayerSurfaces \ {1}, layer \in {"TOP", "OVERLAY"} : wc_layer_shell_new_surface(surface, layer, TopBar)
    \/ \E surface \in LayerSurfaces : wc_layer_shell_map(surface)
    \/ \E surface \in LayerSurfaces : wc_layer_shell_unmap(surface)
    \/ \E attached \in BOOLEAN, needs_frame \in BOOLEAN, previous \in {{}, {OutputBox}} : wc_output_frame(attached, needs_frame, previous)
    \/ wl_display_run

SpecFrame == InitFrame /\ [][NextFrame]_vars

\* a client maps an xdg view, has it resized from its top left corner,
\* unmaps and maps it again, and commits its surface whether the view is
\* mapped or not, acknowledging none or one of the configures it was
\* sent; frames take the damage of the output
NextCommit ==
    \/ \E c \in ViewClients : wc_new_surface(c, "XDG")
    \/ \E c \in ViewClients : wc_xdg_surface_map(c, MaxSize, MaxSize)
    \/ \E at \in Mapped \cup {NULL_CLIENT}, p \in {<<0, 0>>, <<1, 1>>} : wc_process_motion(at, p[1], p[2]) /\ \A c \in Clients : Bounded(views'[c])
    \/ wc_cursor_button("BTN_LEFT", TRUE, NULL_CLIENT)
    \/ \E c \in Mapped : next_serial <= MaxSerial /\ wc_view_resize(c, {"TOP", "LEFT"})
    \/ \E c \in ViewClients : wc_surface_unmap(c)
    \/ \E c \in ViewClients, n \in 0..MaxSerial : wc_xdg_surface_commit(c, n)
    \/ wc_output_frame(TRUE, FALSE, {})
    \/ wl_display_run

SpecCommit == InitFrame /\ [][NextCommit]_vars

\* a client maps an xdg view whose surface is small, or larger than the
\* output; the view is moved by the pointer, clicked and unmapped; frames
\* take the damage of the output
NextSpan ==
    \/ \E c \in ViewClients : wc_new_surface(c, "XDG")
    \/ \E c \in ViewClients, size \in {<<1, 1>>, <<OutputWidth + 2, OutputHeight + 2>>} : wc_xdg_surface_map(c, size[1], size[2])
    \/ \E at \in Mapped \cup {NULL_CLIENT}, p \in {<<0, 0>>, <<1, 1>>} : wc_process_motion(at, p[1], p[2]) /\ \A c \in Clients : Bounded(views'[c])
    \/ \E released \in BOOLEAN : wc_cursor_button("BTN_LEFT", released, NULL_CLIENT)
    \/ \E c \in Mapped : wc_view_move(c)
    \/ \E c \in ViewClients : wc_surface_unmap(c)
    \/ wc_output_frame(TRUE, FALSE, {})
    \/ wl_display_run

SpecSpan == InitFrame /\ [][NextSpan]_vars

\* the state after wc_server_init, before the backend has announced an
\* output
InitHotplug ==
    /\ InitServer
    /\ round_trip = RoundTripOff
    /\ held_keys = HeldKeysOff
    /\ server_outputs = <<>>
    /\ active_output = NULL_OUTPUT
    /\ pointer_event = PointerEventOff
    /\ views = ViewsOff
    /\ SceneOff

\* outputs are plugged and unplugged while clients take and release the
\* cursor override or disconnect, and the pointer moves
NextHotplug ==
    \/ \E o \in Outputs : wc_new_output(o)
    \/ \E o \in Outputs : wc_output_destroy(o)
    \/ \E c \in Clients : mousegrabber_bind(c)
    \/ \E r \in Resources : grab_mouse(r, "watch")
    \/ \E r \in Resources : release_mouse(r)
    \/ \E c \in Clients : wl_client_destroy(c)
    \/ wc_process_motion(NULL_CLIENT, 0, 0)
    \/ wl_display_run

SpecHotplug == InitHotplug /\ [][NextHotplug]_vars

\* ------------------------------------------------------------------------
\* Properties of the cursor override (checked under SpecGrab)

\* the holder fields name one live resource and the client that owns it,
\* or are both NULL
HolderConsistent ==
    IF mousegrabber.resource = NULL_RES
    THEN mousegrabber.client = NULL_CLIENT
    ELSE /\ mousegrabber.resource \in mg_resources
         /\ mousegrabber.client = ResourceClient(mousegrabber.resource)

\* C1: at most one client holds the cursor override in every reachable
\* state, and a grab_mouse request handled while a grab is held is answered
\* with ALREADY_GRABBED and leaves the holder (resource and client), the
\* mouse grab flag, the cursor mode and the compositor cursor image as
\* they were
C1_GrabWhileHeld ==
    /\ []HolderConsistent
    /\ [][(mg_request'.op = "grab_mouse" /\ mousegrabber.resource /= NULL_RES)
            => /\ mg_request'.error = "ALREADY_GRABBED"
               /\ client_error'[ResourceClient(mg_request'.resource)]
                      = "ALREADY_GRABBED"
               /\ UNCHANGED <<mousegrabber, mouse_grab, cursor,
                              wlr_cursor_image>>]_vars

\* C1 witness: a second client was just refused while the holder's grab
\* is held with an interactive move in progress and the grab image shown
C1_Witness ==
    /\ mg_request.op = "grab_mouse"
    /\ mg_request.error = "ALREADY_GRABBED"
    /\ mousegrabber.resource /= NULL_RES
    /\ ResourceClient(mg_request.resource) /= mousegrabber.client
    /\ mouse_grab
    /\ cursor.cursor_mode = "MOVE"
    /\ cursor.compositor_image = "watch"
    /\ wlr_cursor_image = XcursorImage("watch")

\* the image the claim expects after a release: the client provided image
\* that was in effect before the grab if its client still owns the pointer
\* focus, the default image otherwise
ImageExpectedAfterRelease ==
    IF /\ image_before_grab.kind = "surface"
       /\ pointer_focus = image_before_grab.client
       /\ cursor.use_client_image
    THEN image_before_grab
    ELSE XcursorImage(cursor.default_image)

\* C10: once a grab is released, the cursor image in effect is the image
\* that was in effect immediately before the grab: the client provided
\* image if one was in effect, the default image otherwise
C10_ReleaseRestoresImage ==
    (mg_request.op = "release_mouse" /\ mg_request.error = "none")
        => wlr_cursor_image = ImageExpectedAfterRelease

\* ------------------------------------------------------------------------
\* Properties of the keybinding filter (checked under SpecKeys)

\* a modifier mask without its lock and mod2 bits
Strip(mask) == mask \ {"Lock", "Mod2"}

\* the chord is in the registered set, lock and mod2 left aside
InRegisteredSet(hash_set, key, mask) ==
    /\ hash_set[key].present
    /\ Strip(hash_set[key].mod_mask) = Strip(mask)

\* the client that bound the keybindings global holds the keyboard focus
ControllerFocused ==
    /\ keybindings.resource /= NULL_RES
    /\ keyboard_focus = ResourceClient(keybindings.resource)

\* the handled key is the Ctrl+Shift+Escape chord
IsTerminatorChord ==
    /\ "Escape" \in key_event.syms
    /\ {"Shift", "Control"} \subseteq key_event.depressed

\* the handled key is one the compositor consumes to switch the VT
IsVtSwitch == "XF86Switch_VT_1" \in key_event.syms

\* C2: at most one client holds the keybinding filter: when a client binds
\* the keybindings global while the resource of another client is bound,
\* the bind is rejected with a protocol error and the bound resource stays
\* that of the first client
C2_SecondBindRejected ==
    [][\A r \in Resources :
          (/\ r \in kb_resources' \ kb_resources
           /\ keybindings.resource /= NULL_RES
           /\ ResourceClient(keybindings.resource) /= ResourceClient(r))
          => /\ keybindings'.resource = keybindings.resource
             /\ client_error'[ResourceClient(r)] /= "none"]_vars

\* C3: a key event (other than a VT switch key) is handed to the seat for
\* delivery to a regular client if and only if its keycode with its lock
\* and mod2 stripped mask is not in the registered set, no controller
\* holds the keyboard focus and it is not the Ctrl+Shift+Escape chord
C3_DeliveredIff ==
    (key_event /= NoKey /\ ~IsVtSwitch)
        => (key_event.seat
              <=> /\ ~InRegisteredSet(registered_keys, key_event.keycode,
                                       key_event.modifiers)
                  /\ ~ControllerFocused
                  /\ ~IsTerminatorChord)

\* C4: whenever Escape is pressed while Shift and Control are held, the
\* display is asked to terminate and the key is handed to no client
\* through the seat, whatever is registered and whoever holds the focus
C4_TerminatorAlwaysTerminates ==
    (key_event /= NoKey /\ key_event.pressed /\ IsTerminatorChord)
        => /\ key_event.terminate
           /\ ~key_event.seat

\* C4 witness: the chord is pressed while (Escape, Ctrl|Shift) is
\* registered and the controller that registered it holds the focus
C4_Witness ==
    /\ key_event /= NoKey
    /\ key_event.pressed
    /\ IsTerminatorChord
    /\ registered_keys[key_event.keycode] =
           [present |-> TRUE, mod_mask |-> {"Control", "Shift"}]
    /\ ControllerFocused
    /\ key_event.terminate

\* C5: with (K, M) registered and a regular client holding the keyboard
\* focus, a key event for K whose stripped mask differs from M is handed
\* to the seat and no key event is sent to the controller
C5_OtherMaskDeliveredNormally ==
    (/\ key_event /= NoKey
     /\ ~IsVtSwitch /\ ~IsTerminatorChord
     /\ keybindings.resource /= NULL_RES
     /\ keyboard_focus /= NULL_CLIENT
     /\ ~ControllerFocused
     /\ registered_keys[key_event.keycode].present
     /\ ~InRegisteredSet(registered_keys, key_event.keycode,
                         key_event.modifiers))
        => /\ key_event.seat
           /\ key_event.sent = NoKeySent

\* C6: matching ignores lock and mod2: for every registered (K, M) and
\* every mask M2 of a key event on K, the event matches iff M and M2 are
\* equal once lock and mod2 are removed from both
C6_MatchIgnoresLockMod2 ==
    \A k \in XkbKeycodes, m2 \in SUBSET Modifiers :
        registered_keys[k].present
            => (KeyPresent(registered_keys, k, m2)
                  <=> Strip(registered_keys[k].mod_mask) = Strip(m2))

\* C7: a key event with caps lock on that matches a registered chord is
\* sent to the controller with the lock bit removed from its modifier
\* mask, and is not handed to the seat
C7_SentMaskLockStripped ==
    (/\ key_event /= NoKey
     /\ "Lock" \in key_event.modifiers
     /\ ~IsVtSwitch /\ ~IsTerminatorChord
     /\ keybindings.resource /= NULL_RES
     /\ InRegisteredSet(registered_keys, key_event.keycode,
                        key_event.modifiers))
        => /\ key_event.sent.resource = keybindings.resource
           /\ key_event.sent.modifiers = key_event.modifiers \ {"Lock"}
           /\ ~key_event.seat

\* C8 as stated: while the controller holds the keyboard focus it is sent
\* every key event over the keybindings protocol
C8_ControllerFocusedGetsEveryKey ==
    (key_event /= NoKey /\ ControllerFocused)
        => /\ key_event.sent.resource = keybindings.resource
           /\ key_event.sent.keycode = key_event.keycode

\* C8 amended: while the controller holds the keyboard focus it is sent
\* every key event the compositor does not consume itself (the
\* Ctrl+Shift+Escape chord and the VT switch keys), registered or not,
\* with the key's keycode, state and modifier mask
C8_ControllerFocusedGetsUnconsumedKeys ==
    (key_event /= NoKey /\ ControllerFocused
        /\ ~IsVtSwitch /\ ~IsTerminatorChord)
        => key_event.sent = [resource |-> keybindings.resource,
                             keycode |-> key_event.keycode,
                             pressed |-> key_event.pressed,
                             modifiers |-> key_event.modifiers]

\* C8 witness: the focused controller is sent a key that is not registered
C8_Witness ==
    /\ key_event /= NoKey
    /\ ControllerFocused
    /\ ~registered_keys[key_event.keycode].present
    /\ key_event.sent.resource = keybindings.resource
    /\ key_event.sent.modifiers = {"Control", "Lock", "Mod1"}

\* ------------------------------------------------------------------------
\* Properties of the registered set (checked under SpecFilter)

\* the filter state as key events see it: the chords that match
MatchSet(hash_set) ==
    {km \in XkbKeycodes \X (SUBSET Modifiers) :
        KeyPresent(hash_set, km[1], km[2])}

\* C9 as stated: after register (K, M), clear keys, register (K, M), the
\* chords that match are those that matched after the first register
C9_RoundTrip ==
    round_trip.phase = 3
        => MatchSet(registered_keys) = MatchSet(round_trip.snap)

\* C9 amended: the same, for a first register issued when no other keycode
\* was registered; the stored entries are then equal as well
C9_RoundTripFromEmpty ==
    (round_trip.phase = 3 /\ round_trip.alone)
        => /\ registered_keys = round_trip.snap
           /\ MatchSet(registered_keys) = MatchSet(round_trip.snap)

\* C9 witness: the round trip was completed for Ctrl|Alt+Q, which matches
C9_Witness ==
    /\ round_trip.phase = 3
    /\ round_trip.alone
    /\ round_trip.key = 24
    /\ round_trip.mods = {"Control", "Mod1"}
    /\ <<24, {"Control", "Mod1"}>> \in MatchSet(registered_keys)

\* ------------------------------------------------------------------------
\* Properties of release_mouse (checked under SpecGrab)

\* C11: a release_mouse request from a client that is not the current
\* grabber, also when nobody holds the grab, is answered with NOT_GRABBED
\* and leaves the holder, the mouse grab flag, the compositor cursor image
\* and the software cursor locks as they were
C11_ReleaseByNonHolder ==
    [][(/\ mg_request'.op = "release_mouse"
        /\ \/ mousegrabber.resource = NULL_RES
           \/ mousegrabber.client /= ResourceClient(mg_request'.resource))
           => /\ mg_request'.error = "NOT_GRABBED"
              /\ client_error'[ResourceClient(mg_request'.resource)]
                     = "NOT_GRABBED"
              /\ UNCHANGED <<mousegrabber, mouse_grab, cursor,
                             wlr_cursor_image, software_cursor_locks>>]_vars

\* C11 witness: a client was just refused while another client holds the
\* grab, its image is shown and the software cursors are locked
C11_Witness ==
    /\ mg_request.op = "release_mouse"
    /\ mg_request.error = "NOT_GRABBED"
    /\ mousegrabber.resource /= NULL_RES
    /\ mousegrabber.client /= ResourceClient(mg_request.resource)
    /\ mouse_grab
    /\ cursor.compositor_image = "cross"
    /\ \A o \in Outputs : software_cursor_locks[o] = 1

\* ------------------------------------------------------------------------
\* Properties of pointer events (checked under SpecPointer)

\* some client holds the cursor override
GrabHeld == mousegrabber.resource /= NULL_RES

\* C12: while the override is held every button event is forwarded to the
\* holder as mouse_button(x, y, state, button) and the seat, hence every
\* other client, is not notified; while nobody holds it every button event
\* notifies the seat
C12_ButtonRouted ==
    pointer_event.kind = "button"
        => IF GrabHeld
           THEN /\ pointer_event.grabber =
                      wc_mousegrabber_notify_mouse_button(
                          mousegrabber, pointer_event.x, pointer_event.y,
                          pointer_event.button, pointer_event.released)
                /\ ~pointer_event.seat_button
           ELSE pointer_event.seat_button

\* C13: while the override is held every cursor motion sends mouse_moved(x, y)
\* to the holder and sends pointer enter or motion to no client's surface,
\* also when the cursor is over a view
C13_MotionOnlyToGrabber ==
    (pointer_event.kind = "motion" /\ GrabHeld)
        => /\ pointer_event.grabber =
                  [resource |-> mousegrabber.resource, event |-> "mouse_moved",
                   x |-> wlr_cursor_xy[1], y |-> wlr_cursor_xy[2],
                   button |-> "none", released |-> FALSE]
           /\ pointer_event.seat_enter = NULL_CLIENT
           /\ pointer_event.seat_motion = NULL_CLIENT
\* C15: after every button release the cursor mode is Passthrough, whatever
\* the mode was and also while the cursor override is held
C15_ReleaseEndsGrab ==
    (pointer_event.kind = "button" /\ pointer_event.released)
        => cursor.cursor_mode = "PASSTHROUGH"

\* ------------------------------------------------------------------------
\* Properties of interactive move and resize (checked under SpecRequest,
\* SpecView and SpecResize)

\* a step begins an interactive grab: the grab record is written, or the
\* mode becomes Move or Resize
GrabBegins ==
    \/ grabbed' /= grabbed
    \/ /\ cursor'.cursor_mode /= cursor.cursor_mode
       /\ cursor'.cursor_mode /= "PASSTHROUGH"

\* C14: the mode becomes Move or Resize, and the grab record is
\* snapshotted, only when the mode is Passthrough and the view that asks
\* holds the pointer focus; a request of another view, or one made while
\* the mode is Move or Resize, changes neither
C14_GrabOnlyFromPassthrough ==
    [][GrabBegins => /\ cursor.cursor_mode = "PASSTHROUGH"
                     /\ pointer_focus /= NULL_CLIENT
                     /\ grabbed'.view = pointer_focus]_vars
\* C16: in every state whose mode is Move or Resize the grabbed view is
\* live, its destruction having returned the cursor to Passthrough, and no
\* motion has gone through a pointer to a destroyed view
C16_GrabbedViewLive ==
    /\ cursor.cursor_mode /= "PASSTHROUGH"
           => /\ grabbed.view /= NULL_VIEW
              /\ ~grabbed_freed
              /\ views[grabbed.view] /= NoView
    /\ ~crashed
\* C17: once a button release has taken the mode from Move or Resize back
\* to Passthrough, no cursor motion changes the position or the size of
\* the formerly grabbed view until a new grab begins
C17_NoMotionAfterRelease ==
    [][(/\ pointer_event'.kind = "motion"
        /\ cursor.cursor_mode = "PASSTHROUGH"
        /\ grabbed.view /= NULL_VIEW)
           => views'[grabbed.view] = views[grabbed.view]]_vars

\* a motion was handled after the grab of a moved view had ended, and the
\* view did not follow the cursor
C17_Witness ==
    /\ pointer_event.kind = "motion"
    /\ cursor.cursor_mode = "PASSTHROUGH"
    /\ grabbed.view /= NULL_VIEW
    /\ views[grabbed.view].geo.x /= 0
    /\ views[grabbed.view].geo.x /= wlr_cursor_xy[1] - grabbed.original_x
\* the example of C18: a view at (100,100), grabbed with the cursor at
\* (120,110), is at (500,400) after a motion to (520,410)
MoveExample ==
    LET view == [MappedView("XWAYLAND", 30, 20) EXCEPT !.geo.x = 100, !.geo.y = 100]
        grab == MoveGrab(NoGrabbed, 1, view, SurfaceBox(view), <<120, 110>>)
    IN MovedGeo(view.geo, grab, 520, 410) = Box(500, 400, 30, 20)

\* C18: in Move mode every cursor motion leaves the grabbed view at the
\* cursor position minus the offset from the view to the cursor captured
\* when the grab began, its width and height unchanged
C18_MoveFollowsCursor ==
    [][/\ (cursor'.cursor_mode = "MOVE" /\ GrabBegins)
           => /\ grabbed'.original_x = wlr_cursor_xy[1] - views[grabbed'.view].geo.x
              /\ grabbed'.original_y = wlr_cursor_xy[2] - views[grabbed'.view].geo.y
       /\ (/\ pointer_event'.kind = "motion"
           /\ cursor.cursor_mode = "MOVE"
           /\ ~grabbed_freed)
           => /\ views'[grabbed.view].geo.x = wlr_cursor_xy'[1] - grabbed.original_x
              /\ views'[grabbed.view].geo.y = wlr_cursor_xy'[2] - grabbed.original_y
              /\ views'[grabbed.view].geo.width = views[grabbed.view].geo.width
              /\ views'[grabbed.view].geo.height = views[grabbed.view].geo.height
              /\ UNCHANGED grabbed
              /\ MoveExample]_vars

\* a motion was handled in Move mode: the view, grabbed away from its
\* corner, has followed the cursor in x and in y
C18_Witness ==
    /\ pointer_event.kind = "motion"
    /\ cursor.cursor_mode = "MOVE"
    /\ ~grabbed_freed
    /\ grabbed.original_x > 0
    /\ grabbed.original_y > 0
    /\ views[grabbed.view].geo.x = wlr_cursor_xy[1] - grabbed.original_x
    /\ views[grabbed.view].geo.x < 0
    /\ views[grabbed.view].geo.y < 0

\* the edges of the view opposite the dragged ones are where they were when
\* the grab began
EdgesFixed(view, grab) ==
    LET original == grab.original_view_geo
    IN /\ "LEFT" \in grab.resize_edges =>
              view.geo.x + view.geo.width = original.x + original.width
       /\ "RIGHT" \in grab.resize_edges => view.geo.x = original.x
       /\ "TOP" \in grab.resize_edges =>
              view.geo.y + view.geo.height = original.y + original.height
       /\ "BOTTOM" \in grab.resize_edges => view.geo.y = original.y

\* C19: during a resize, once the client has acknowledged every configure
\* sent to it, the edge of the view opposite each dragged edge is at the
\* layout coordinate it had when the grab began (checked under SpecShrink)
C19_OppositeEdgeFixed ==
    (/\ Tracked
     /\ cursor.cursor_mode = "RESIZE"
     /\ grabbed.view /= NULL_VIEW
     /\ ~grabbed_freed
     /\ views[grabbed.view].configures = <<>>)
        => EdgesFixed(views[grabbed.view], grabbed)

\* Properties of the commit of an xdg view (checked under SpecResize)

FocusCalled == Tracked /\ focus_event \notin {NoFocusEvent, FocusEventOff}

\* C21: when the focus moves from a focused view P to another view V, P is
\* deactivated before V is activated and before V is sent keyboard enter,
\* and after the call V is the only activated view
C21_PreviousDeactivatedFirst ==
    (FocusCalled /\ focus_event.prev \notin {NULL_VIEW, focus_event.view}) =>
        LET log == focus_event.log
        IN /\ \E i \in 1..Len(log) :
                  /\ log[i] = [op |-> "deactivate", view |-> focus_event.prev]
                  /\ \A j \in 1..Len(log) :
                         log[j].op \in {"activate", "keyboard_enter"} => i < j
           /\ \A c \in Clients : views[c].activated => c = focus_event.view

\* C22: a call of wc_focus_view for the view that holds the keyboard focus
\* sends no keyboard enter, leaves the view list in its order and changes
\* the activation of no view
C22_FocusedAgainIsNoOp ==
    [][(FocusCalled' /\ focus_event'.prev = focus_event'.view) =>
           /\ focus_event'.log = <<>>
           /\ server_views' = server_views
           /\ keyboard_focus' = keyboard_focus
           /\ \A c \in Clients : views'[c].activated = views[c].activated]_vars

\* wc_focus_view was called for the view that holds the keyboard focus
\* while another view is listed
C22_Witness ==
    /\ FocusCalled
    /\ focus_event.prev = focus_event.view
    /\ Len(server_views) = 2

\* ------------------------------------------------------------------------
\* Properties of the layer arrangement (checked under SpecLayers)

\* C23: after an arrangement the usable area of the output is its
\* resolution less, on each edge, the sum of the exclusive zones of the
\* surfaces anchored to that edge (to the edge alone, or to it and the two
\* edges next to it), never of negative width or height, and every surface
\* without an exclusive zone that was configured lies inside it
C23_UsableAreaLessExclusiveZones ==
    layer_event.arranged =>
        LET log == layer_event.log
            Edge(anchor) ==
                IF anchor \in {{"TOP"}, {"TOP"} \cup LAYER_BOTH_HORIZ} THEN "TOP"
                ELSE IF anchor \in {{"BOTTOM"}, {"BOTTOM"} \cup LAYER_BOTH_HORIZ} THEN "BOTTOM"
                ELSE IF anchor \in {{"LEFT"}, {"LEFT"} \cup LAYER_BOTH_VERT} THEN "LEFT"
                ELSE IF anchor \in {{"RIGHT"}, {"RIGHT"} \cup LAYER_BOTH_VERT} THEN "RIGHT"
                ELSE "NONE"
            RECURSIVE Zone(_, _)
            Zone(edge, n) ==
                IF n = 0
                THEN 0
                ELSE Zone(edge, n - 1) +
                     (IF log[n].state.exclusive_zone > 0 /\ Edge(log[n].state.anchor) = edge
                      THEN log[n].state.exclusive_zone
                      ELSE 0)
            left == Zone("LEFT", Len(log))
            right == Zone("RIGHT", Len(log))
            top == Zone("TOP", Len(log))
            bottom == Zone("BOTTOM", Len(log))
            NonNegative(n) == IF n < 0 THEN 0 ELSE n
        IN /\ usable_area = Box(left, top,
                                NonNegative(OutputWidth - (left + right)),
                                NonNegative(OutputHeight - (top + bottom)))
           /\ \A i \in 1..Len(log) :
                  (log[i].state.exclusive_zone = 0 /\ log[i].op = "configure") =>
                      LET area == log[i].arranged_area
                      IN /\ usable_area.x <= area.x
                         /\ usable_area.y <= area.y
                         /\ area.x + area.width <= usable_area.x + usable_area.width
                         /\ area.y + area.height <= usable_area.y + usable_area.height

\* C24: on each axis a surface spans its bounds only if both anchors of
\* the axis are set and the desired extent is 0, and it does so then; with
\* one anchor it is aligned to that edge, with none it is centred, and in
\* these three cases it keeps the desired extent
C24_AnchorTable ==
    layer_event.arranged =>
        \A i \in 1..Len(layer_event.log) :
            LET state == layer_event.log[i].state
                area == layer_event.log[i].anchored
                bounds == LayerBounds(state, usable_area)
                horiz == state.anchor \cap LAYER_BOTH_HORIZ
                vert == state.anchor \cap LAYER_BOTH_VERT
            IN /\ (horiz = LAYER_BOTH_HORIZ /\ state.desired_width = 0) <=>
                      (area.x = bounds.x /\ area.width = bounds.width)
               /\ horiz = {"LEFT"} =>
                      (area.x = bounds.x /\ area.width = state.desired_width)
               /\ horiz = {"RIGHT"} =>
                      /\ area.x + area.width = bounds.x + bounds.width
                      /\ area.width = state.desired_width
               /\ horiz = {} =>
                      /\ area.x = bounds.x + ((bounds.width \div 2) - (state.desired_width \div 2))
                      /\ area.width = state.desired_width
               /\ (vert = LAYER_BOTH_VERT /\ state.desired_height = 0) <=>
                      (area.y = bounds.y /\ area.height = bounds.height)
               /\ vert = {"TOP"} =>
                      (area.y = bounds.y /\ area.height = state.desired_height)
               /\ vert = {"BOTTOM"} =>
                      /\ area.y + area.height = bounds.y + bounds.height
                      /\ area.height = state.desired_height
               /\ vert = {} =>
                      /\ area.y = bounds.y + ((bounds.height \div 2) - (state.desired_height \div 2))
                      /\ area.height = state.desired_height

\* C25: a surface whose area, after the anchors and the margins, has a
\* width or a height of 0 or less is closed, and is given no geometry and
\* no configure
C25_NonPositiveAreaClosed ==
    layer_event.arranged =>
        \A i \in 1..Len(layer_event.log) :
            LET entry == layer_event.log[i]
            IN (entry.arranged_area.width <= 0 \/ entry.arranged_area.height <= 0) =>
                   /\ entry.op = "close"
                   /\ layer_surfaces[entry.surface].closed
                   /\ layer_surfaces[entry.surface].geo = NoBox
                   /\ layer_surfaces[entry.surface].configured = <<>>

\* C26: a step that arranges the output leaves the keyboard focus with
\* the topmost keyboard-interactive surface of the overlay and top layers
\* if there is one, and with the focused view otherwise
C26_InteractiveLayerFocused ==
    [][layer_event'.arranged =>
           IF layer_event'.focus_layer /= NULL_LAYER
           THEN keyboard_focus' = LayerFocus(layer_event'.focus_layer)
           ELSE keyboard_focus' = keyboard_focus]_vars


\* ------------------------------------------------------------------------
\* Properties of the frames of the output (checked under SpecFrame)

\* the place of a step of a frame in the painting order
PaintRank(step) ==
    CASE step.op = "clear" -> 0
      [] step.op = "layer" /\ step.layer = "BACKGROUND" -> 1
      [] step.op = "layer" /\ step.layer = "BOTTOM" -> 2
      [] step.op = "view" -> 3
      [] step.op = "layer" /\ step.layer = "TOP" -> 4
      [] step.op = "layer" /\ step.layer = "OVERLAY" -> 5
      [] step.op = "cursors" -> 6
      [] OTHER -> 7

\* the place of a view in server->views, 1 for the head
ViewIndex(view) == CHOOSE i \in 1..Len(server_views) : server_views[i] = view

\* the steps of the frame that paint a surface of the layer
LayerSteps(layer) == {i \in 1..Len(frame.log) : frame.log[i].op = "layer" /\ frame.log[i].layer = layer}

\* the steps of the frame that paint a view
ViewSteps == {i \in 1..Len(frame.log) : frame.log[i].op = "view"}

\* C27: within one frame the painting goes in the order background,
\* background layer, bottom layer, views, top layer, overlay layer,
\* software cursors; the views are painted from the tail of the view list
\* to its head, so the head is painted last among them
C27_PaintOrder ==
    frame.called =>
        \A i, j \in 1..Len(frame.log) :
            i < j =>
                /\ PaintRank(frame.log[i]) <= PaintRank(frame.log[j])
                /\ (i \in ViewSteps /\ j \in ViewSteps) =>
                       ViewIndex(frame.log[i].surface) > ViewIndex(frame.log[j].surface)

\* a frame painted a surface of a layer below the views, two views, a
\* surface of a layer above the views, and the software cursors
C27_Witness ==
    /\ frame.called
    /\ LayerSteps("BACKGROUND") \cup LayerSteps("BOTTOM") /= {}
    /\ Cardinality(ViewSteps) >= 2
    /\ LayerSteps("TOP") \cup LayerSteps("OVERLAY") /= {}
    /\ \E i \in 1..Len(frame.log) : frame.log[i].op = "cursors"

\* the frame drew the view: its texture reached a part of the output
Drawn(view) == \E i \in ViewSteps : frame.log[i].surface = view /\ frame.log[i].painted /= {}

Committed == \E i \in 1..Len(frame.log) : frame.log[i].op = "commit"

\* C29: if the damage region computed for a frame is empty, the frame
\* ends without swapping: no output commit is made for that frame
C29_EmptyDamageNoCommit ==
    (frame.called /\ frame.attached /\ frame.damage = {}) => ~Committed

\* C29, amended: a frame for which the damage tracker says no swap is
\* needed ends without painting and without a commit of the output,
\* whatever its damage region; a frame for which a swap is needed and
\* whose damage region is empty clears and paints no surface, renders the
\* software cursors and commits the output
C29_NoSwapNoCommit ==
    (frame.called /\ frame.attached) =>
        /\ ~frame.needs_swap => frame.log = <<>>
        /\ (frame.needs_swap /\ frame.damage = {}) =>
               /\ Len(frame.log) = 2
               /\ frame.log[1].op = "cursors"
               /\ frame.log[2].op = "commit"

\* a frame needed a swap and had an empty damage region
C29_Witness ==
    /\ frame.called
    /\ frame.attached
    /\ frame.needs_swap
    /\ frame.damage = {}
    /\ Committed


\* ------------------------------------------------------------------------
\* Properties of the commits of unmapped views (checked under SpecCommit)

C31_XwaylandAlignsOnce ==
    [][\A c \in Clients, n \in 0..MaxSerial :
           wc_xwayland_commit(c, n) =>
               LET view == views[c]
                   pending == view.pending_geometry
                   committed == SurfaceBox(ClientAcks(view, n))
               IN /\ views'[c].pending_serial = 0
                  /\ view.pending_serial = 0
                         => /\ views'[c].geo.x = view.geo.x
                            /\ views'[c].geo.y = view.geo.y
                  /\ view.pending_serial > 0
                         => /\ views'[c].geo.x =
                                   IF pending.x /= view.geo.x
                                   THEN pending.x + pending.width - committed.width
                                   ELSE view.geo.x
                            /\ views'[c].geo.y =
                                   IF pending.y /= view.geo.y
                                   THEN pending.y + pending.height - committed.height
                                   ELSE view.geo.y]_vars

\* an X11 view that was resized from its top left corner and aligned by a
\* commit, which left no serial pending
C31_Witness ==
    /\ Tracked
    /\ cursor.cursor_mode = "RESIZE"
    /\ \E c \in Clients :
           /\ views[c] /= NoView
           /\ views[c].surface_type = "XWAYLAND"
           /\ views[c].pending_serial = 0
           /\ views[c].geo.x > 0
           /\ views[c].geo.y > 0

\* ------------------------------------------------------------------------
\* Properties of the size asked during a resize (checked under SpecShrink)

\* C32: during a Resize grab the view never inverts: whatever the cursor
\* position and the dragged edges, the geometry proposed to the client
\* has a width and a height of at least 1
C32_ResizeNeverInverts ==
    [][\A c \in Clients, p \in CursorPoints :
           (/\ wc_process_motion(NULL_CLIENT, p[1], p[2])
            /\ cursor.cursor_mode = "RESIZE"
            /\ ~grabbed_freed
            /\ grabbed.view = c) =>
               /\ views'[c].pending_geometry.width >= 1
               /\ views'[c].pending_geometry.height >= 1]_vars

\* ------------------------------------------------------------------------
\* Properties of the damage of a whole view (checked under SpecSpan)

\* the part of the rectangle that lies on the output is in the damage of
\* the output after the step
WholeDamaged(geo) ==
    LET on_output == Intersection(geo, OutputBox)
    IN ~EmptyBox(on_output) =>
           \E rect \in output_damage' : Intersection(rect, on_output) = on_output

\* C33: whenever the whole rectangle of a view is damaged (here: when it is
\* unmapped, and where it was and where it is when it is moved), the output
\* receives the damage if its layout box intersects the rectangle, also
\* when it contains none of the four corners of the rectangle
C33_IntersectingOutputDamaged ==
    [][/\ \A c \in Clients :
              wc_surface_unmap(c) => WholeDamaged(views[c].geo)
       /\ \A p \in {<<0, 0>>, <<1, 1>>} :
              (/\ wc_process_motion(NULL_CLIENT, p[1], p[2])
               /\ cursor.cursor_mode = "MOVE"
               /\ ~grabbed_freed) =>
                  /\ WholeDamaged(views[grabbed.view].geo)
                  /\ WholeDamaged(views'[grabbed.view].geo)]_vars

\* ------------------------------------------------------------------------
\* Properties of the release of a key (checked under SpecPress)

\* C34: the press and the release of a key are filtered alike: the release
\* of a key whose press was withheld from the seat for the controller is
\* withheld too, and the release of a key whose press went to the seat
\* goes to the seat, whatever happened to the modifier state and to the
\* registered chords in between (releases the compositor handles itself,
\* the VT switch and the terminator chord, are left aside)
C34_ReleaseFilteredAsPress ==
    [][\A k \in XkbKeycodes :
           (/\ key_event = NoKey
            /\ key_event' /= NoKey
            /\ key_event'.keycode = k
            /\ ~key_event'.pressed
            /\ ~HandledByCompositor(key_event'.syms, key_event'.depressed)
            /\ held_keys[k] \in {"seat", "withheld"}) =>
               (key_event'.seat <=> held_keys[k] = "seat")]_vars

\* ------------------------------------------------------------------------
\* Properties of chords registered for one keycode (checked under SpecFilter)

\* C35: the filter keeps a set of masks for each keycode: once a chord of
\* a keycode with one mask and then a chord of the same keycode with
\* another mask were registered, with no clear in between, key events of
\* that keycode with either mask are matched
C35_BothMasksMatched ==
    [][\A r \in Resources, k \in RegisterKeycodes, m \in RegisterMasks :
           (/\ register_key(r, k, m)
            /\ registered_keys[k].present
            /\ registered_keys[k].mod_mask /= m) =>
               /\ KeyPresent(registered_keys', k, m)
               /\ KeyPresent(registered_keys', k, registered_keys[k].mod_mask)]_vars

\* ------------------------------------------------------------------------
\* Properties of the holder of the grab when resources are destroyed
\* (checked under SpecGrab)

\* C36: when the mousegrabber resource that holds the grab is destroyed
\* (its client disconnects, is disconnected for a protocol error, or
\* releases) the holder becomes empty, and with an empty holder a
\* grab_mouse of any client succeeds; a step that destroys only resources
\* that do not hold the grab leaves the holder as it is
C36_HolderClearedOnDestroy ==
    [][/\ (mousegrabber.resource /= NULL_RES /\ mousegrabber.resource \notin mg_resources')
              => mousegrabber' = [resource |-> NULL_RES, client |-> NULL_CLIENT]
       /\ (mousegrabber.resource /= NULL_RES /\ mousegrabber.resource \in mg_resources')
              => mousegrabber' = mousegrabber
       /\ \A r \in Resources, n \in CursorNames :
              (grab_mouse(r, n) /\ mousegrabber.resource = NULL_RES) =>
                  /\ mg_request'.error = "none"
                  /\ client_error' = client_error
                  /\ mousegrabber' = [resource |-> r, client |-> ResourceClient(r)]]_vars

\* a client was granted the grab while the cursor image of an earlier
\* grab, whose holder was destroyed without a release, was still shown, and
\* another client still has a resource
C36_Witness ==
    /\ mg_request.op = "grab_mouse"
    /\ mg_request.error = "none"
    /\ mousegrabber.resource = mg_request.resource
    /\ image_before_grab \in {XcursorImage(n) : n \in CursorNames}
    /\ \E r \in mg_resources : r /= mousegrabber.resource

\* ------------------------------------------------------------------------
\* Properties of the override flag of the server (checked under SpecGrab)

\* C37: in every reachable state the mouse_grab flag of the server is set
\* exactly when some client holds the grab; it is clear in particular once
\* the resource of the grabbing client was destroyed without a release
C37_FlagIffHolder ==
    mouse_grab <=> mousegrabber.resource /= NULL_RES

\* ------------------------------------------------------------------------
\* Properties of the cursor mode under the override (checked under SpecGrab)

\* C38: while a client holds the cursor override the cursor mode is
\* Passthrough: the grab puts it there and no move or resize request of a
\* view takes it to Move or Resize before the release
C38_PassthroughWhileHeld ==
    mousegrabber.resource /= NULL_RES => cursor.cursor_mode = "PASSTHROUGH"

\* ------------------------------------------------------------------------
\* Properties of the outputs that come and go (checked under SpecHotplug)

\* C39: over every sequence of grabs, releases, disconnects of the grabber
\* and outputs plugged and unplugged, every output present holds a software
\* cursor lock exactly while a compositor cursor image is set, outputs
\* plugged while the grab is held included, and no counter is taken below
\* zero by an unlock that no lock preceded
C39_LocksBalanced ==
    /\ \A i \in DOMAIN server_outputs :
           software_cursor_locks[server_outputs[i]] =
               IF cursor.compositor_image /= NULL_NAME THEN 1 ELSE 0
    /\ \A o \in Outputs : software_cursor_locks[o] >= 0

\* C40: the active output is NULL exactly when the list of outputs is
\* empty and is an output of the list otherwise, and a pointer motion
\* processed while there is no output, before the first is plugged or after
\* the last is unplugged, completes without a fault and leaves the active
\* output NULL
C40_MotionWithoutOutput ==
    /\ [](/\ active_output = NULL_OUTPUT <=> server_outputs = <<>>
          /\ active_output /= NULL_OUTPUT =>
                 \E i \in DOMAIN server_outputs : server_outputs[i] = active_output)
    /\ [][(wc_process_motion(NULL_CLIENT, 0, 0) /\ server_outputs = <<>>) =>
              /\ ~crashed'
              /\ active_output' = NULL_OUTPUT]_vars

====
